---- MODULE Spec2Model ----
(***************************************************************************)
(* A model of wormhole: the path-state tree and its walker (return.c),    *)
(* the environment assembler (profiles.c), the daemon's asynchronous       *)
(* environment setup and its event loop (async-setup.c, wormhole.c,        *)
(* socket.c), the digger (digger.c, mntent.c), the analyser                *)
(* (auto-profile.c), the capabilities of the registry (registry.c) and     *)
(* the writer and parser of configuration files (config.c).                *)
(***************************************************************************)
EXTENDS Integers, Sequences, FiniteSets, TLC

VARIABLES
    tree,       \* wormhole_tree_state: the nodes reachable from tree->root
    walker,     \* the wormhole_tree_walker of the walk in progress
    ret,        \* what the last tree operation was given and returned
    yielded,    \* the (path, state) pairs walk_next returned in this walk
    created,    \* the component lists that create=true lookups were given
    skipUsed,   \* skip_children was called during this walk
    env,        \* a wormhole_environment: layer[], failed, root_directory, tree_state
    setup,      \* the last call of wormhole_environment_setup: what it did and returned
    daemon,     \* the daemon's memory and the processes it forked
    config,     \* the configuration loaded, the environments made of it
    net,        \* the daemon's sockets, its request list and the clients' connections
    digger,     \* a run of the digger: its options, the overlay root, the assembled tree
    autoprofile,\* a run of the analyser: the tree on disk, the profile, what it did
    registry,   \* capabilities compared, and a lookup in the capability directory
    cfgfile     \* a configuration, the file written from it, what is loaded

treeVars == <<tree, walker, ret, yielded, created, skipUsed>>

envVars == <<env, setup>>

vars == <<tree, walker, ret, yielded, created, skipUsed, env, setup, daemon,
          config, net, digger, autoprofile, registry, cfgfile>>

\* what the operations on a tree, and those on an environment, leave alone
notTreeVars == <<envVars, daemon, config, net, digger, autoprofile, registry,
     cfgfile>>

notEnvVars == <<treeVars, daemon, config, net, digger, autoprofile, registry,
     cfgfile>>

notDaemonVars == <<treeVars, envVars, config, net, digger, autoprofile,
     registry, cfgfile>>

notConfigVars == <<treeVars, envVars, daemon, net, digger, autoprofile,
     registry, cfgfile>>

notNetVars == <<treeVars, envVars, daemon, config, digger, autoprofile,
     registry, cfgfile>>

notDiggerVars == <<treeVars, envVars, daemon, config, net, autoprofile,
     registry, cfgfile>>

notAutoprofileVars == <<treeVars, envVars, daemon, config, net, digger,
     registry, cfgfile>>

notRegistryVars ==
    <<treeVars, envVars, daemon, config, net, digger, autoprofile, cfgfile>>

notCfgfileVars ==
    <<treeVars, envVars, daemon, config, net, digger, autoprofile, registry>>

-----------------------------------------------------------------------------
(* Bounds *)

MaxPathLen == 4
MaxNodes == 3
MaxLookupNodes == 2
MaxLayers == 2
MaxChildren == 4
MaxRequests == 2
MaxDeclared == 3
MaxPasses == 2

-----------------------------------------------------------------------------
(* Strings are sequences of one-character strings. *)

NULL == 0

PathChars == {"/", "a"}

\* a string that is NULL
NoString == ""

NULLSTR == <<"(null)">>

PATH_MAX == 4096

RECURSIVE StringsOfLen(_)
StringsOfLen(n) ==
    IF n = 0 THEN {<<>>}
    ELSE {Append(s, c) : s \in StringsOfLen(n - 1), c \in PathChars}

\* the absolute paths the operations are called with
AbsPaths ==
    UNION {{<<"/">> \o s : s \in StringsOfLen(n)} : n \in 0..(MaxPathLen - 1)}

-----------------------------------------------------------------------------
(* enum of path states, environment.h *)

WORMHOLE_PATH_STATE_UNCHANGED == 0
WORMHOLE_PATH_STATE_IGNORED == 1
WORMHOLE_PATH_STATE_SYSTEM_MOUNT == 2
WORMHOLE_PATH_STATE_BIND_MOUNTED == 3
WORMHOLE_PATH_STATE_OVERLAY_MOUNTED == 4
WORMHOLE_PATH_STATE_FAKE_OVERLAY_MOUNTED == 5

\* the dispositions the set operations of the model are called with
SetStates == {WORMHOLE_PATH_STATE_BIND_MOUNTED}

-----------------------------------------------------------------------------
(* The path-state tree.  A tree is a sequence of nodes; a node pointer is  *)
(* an index into it, NULL is 0, and tree->root is node 1.                   *)

ROOT == 1

NoName == <<>>

\* wormhole_path_state_node_new: calloc, set the name, push in front of the
\* parent's children
wormhole_path_state_node_new(nodes, name, parent) ==
    LET ps == Len(nodes) + 1
        linked == IF parent # NULL
                  THEN [nodes EXCEPT ![parent].children = ps]
                  ELSE nodes
    IN  Append(linked,
               [parent |-> parent,
                next |-> IF parent # NULL THEN nodes[parent].children ELSE NULL,
                name |-> name,
                state |-> WORMHOLE_PATH_STATE_UNCHANGED,
                user_data |-> FALSE,
                children |-> NULL])

\* wormhole_tree_state_new
wormhole_tree_state_new == wormhole_path_state_node_new(<<>>, NoName, NULL)

\* strtok(s, "/") called until it returns NULL: the non-empty runs between
\* slashes; cur is the token being read, acc the tokens already returned
RECURSIVE strtok(_, _, _)
strtok(s, cur, acc) ==
    IF s = <<>>
    THEN IF cur = <<>> THEN acc ELSE Append(acc, cur)
    ELSE IF Head(s) = "/"
         THEN strtok(Tail(s), <<>>, IF cur = <<>> THEN acc ELSE Append(acc, cur))
         ELSE strtok(Tail(s), Append(cur, Head(s)), acc)

\* while (*path == '/') ++path;
RECURSIVE StripLeadingSlashes(_)
StripLeadingSlashes(path) ==
    IF path # <<>> /\ Head(path) = "/" THEN StripLeadingSlashes(Tail(path)) ELSE path

\* the inner loop of the lookup: the child of a node with the given name
RECURSIVE FindChild(_, _, _)
FindChild(nodes, child, s) ==
    IF child = NULL THEN NULL
    ELSE IF nodes[child].name = s THEN child
    ELSE FindChild(nodes, nodes[child].next, s)

\* the outer loop of the lookup, over the tokens left
RECURSIVE LookupLoop(_, _, _, _)
LookupLoop(nodes, current, toks, create) ==
    IF toks = <<>> \/ current = NULL
    THEN [nodes |-> nodes, node |-> current]
    ELSE LET child == FindChild(nodes, nodes[current].children, Head(toks))
         IN  IF child # NULL \/ ~create
             THEN LookupLoop(nodes, child, Tail(toks), create)
             ELSE LET grown == wormhole_path_state_node_new(nodes, Head(toks), current)
                  IN  LookupLoop(grown, Len(grown), Tail(toks), create)

\* the lookup creating missing nodes whatever the caller asked for
wormhole_path_state_node_lookup_always_create(nodes, path, create) ==
    LookupLoop(nodes, ROOT, strtok(StripLeadingSlashes(path), <<>>, <<>>), TRUE)

wormhole_path_state_node_lookup(nodes, path, create) ==
    LookupLoop(nodes, ROOT, strtok(StripLeadingSlashes(path), <<>>, <<>>), create)

\* __path_prepend: NULL when the name and its slash do not fit
path_prepend(w, name) ==
    IF Len(name) + 1 > (PATH_MAX - 1) - Len(w) THEN NULLSTR
    ELSE <<"/">> \o name \o w

RECURSIVE ToPathLoop(_, _, _)
ToPathLoop(nodes, node, w) ==
    IF node # NULL /\ w # NULLSTR /\ nodes[node].name # NoName
    THEN ToPathLoop(nodes, nodes[node].parent, path_prepend(w, nodes[node].name))
    ELSE w

\* to_path without the special case of the root
wormhole_path_state_node_to_path_no_root(nodes, node) ==
    ToPathLoop(nodes, node, <<>>)

wormhole_path_state_node_to_path(nodes, node) ==
    LET w == ToPathLoop(nodes, node, <<>>)
    IN  IF w = <<>> THEN <<"/">> ELSE w

\* ps->state.state = new_state, for the node ps a lookup returned
SetNodeState(r, new_state) ==
    [nodes |-> [r.nodes EXCEPT ![r.node].state = new_state], node |-> r.node]

\* __wormhole_tree_state_set
wormhole_tree_state_set(nodes, path, new_state) ==
    SetNodeState(wormhole_path_state_node_lookup(nodes, path, TRUE), new_state)

\* ps->state.user_data = user_data, for the node ps a lookup returned
SetNodeUserData(r) ==
    [nodes |-> [r.nodes EXCEPT ![r.node].user_data = TRUE], node |-> r.node]

\* wormhole_tree_state_set_user_data
wormhole_tree_state_set_user_data(nodes, path) ==
    SetNodeUserData(wormhole_path_state_node_lookup(nodes, path, TRUE))

-----------------------------------------------------------------------------
(* The walker *)

RECURSIVE traverse_right(_, _)
traverse_right(nodes, node) ==
    IF nodes[node].next # NULL THEN nodes[node].next
    ELSE IF nodes[node].parent = NULL THEN NULL
    ELSE traverse_right(nodes, nodes[node].parent)

\* traverse_down stopping at any node, changed or not
RECURSIVE traverse_down_any_state(_, _, _)
traverse_down_any_state(nodes, node, skip_children) ==
    IF node = NULL THEN NULL
    ELSE LET n2 == IF nodes[node].children # NULL /\ ~skip_children
                   THEN nodes[node].children
                   ELSE traverse_right(nodes, node)
         IN  IF n2 # NULL
             THEN n2
             ELSE traverse_down_any_state(nodes, n2, FALSE)

RECURSIVE traverse_down(_, _, _)
traverse_down(nodes, node, skip_children) ==
    IF node = NULL THEN NULL
    ELSE LET n2 == IF nodes[node].children # NULL /\ ~skip_children
                   THEN nodes[node].children
                   ELSE traverse_right(nodes, node)
         IN  IF n2 # NULL /\ nodes[n2].state > 0
             THEN n2
             ELSE traverse_down(nodes, n2, FALSE)

NoWalker == [active |-> FALSE, pos |-> NULL, skip_children |-> FALSE]

\* wormhole_tree_walk_next leaving skip_children set
wormhole_tree_walk_next_keep_skip(nodes, t) ==
    IF t.pos = NULL THEN [t |-> t, node |-> NULL]
    ELSE LET node == traverse_down(nodes, t.pos, t.skip_children)
         IN  IF node = NULL
             THEN [t |-> [t EXCEPT !.pos = NULL], node |-> NULL]
             ELSE [t |-> [t EXCEPT !.pos = node], node |-> node]

\* wormhole_tree_walk_next: the walker afterwards and the node returned
wormhole_tree_walk_next(nodes, t) ==
    IF t.pos = NULL THEN [t |-> t, node |-> NULL]
    ELSE LET node == traverse_down(nodes, t.pos, t.skip_children)
         IN  IF node = NULL
             THEN [t |-> [t EXCEPT !.pos = NULL], node |-> NULL]
             ELSE [t |-> [t EXCEPT !.pos = node, !.skip_children = FALSE],
                   node |-> node]

NoRet == [op |-> "none"]

-----------------------------------------------------------------------------
(* What the history variables and the properties use: paths as the         *)
(* specification describes them, independent of the tree code.             *)

\* the canonical form of an absolute path: no repeated and no trailing slash
RECURSIVE CanonicalForm(_)
CanonicalForm(p) ==
    IF \E i \in 1..(Len(p) - 1) : p[i] = "/" /\ p[i + 1] = "/"
    THEN LET i == CHOOSE k \in 1..(Len(p) - 1) : p[k] = "/" /\ p[k + 1] = "/"
         IN  CanonicalForm(SubSeq(p, 1, i) \o SubSeq(p, i + 2, Len(p)))
    ELSE IF Len(p) > 1 /\ p[Len(p)] = "/"
         THEN SubSeq(p, 1, Len(p) - 1)
         ELSE p

\* the canonical paths of the directories above a canonical path, and itself
PathPrefixes(p) ==
    IF p = <<"/">> THEN {}
    ELSE {SubSeq(p, 1, k) : k \in {j \in 1..Len(p) : j = Len(p) \/ p[j + 1] = "/"}}

\* how many nodes a create=true lookup of this path would add
Growth(nodes, path) ==
    Len(wormhole_path_state_node_lookup(nodes, path, TRUE).nodes) - Len(nodes)

RECURSIVE IsDescendant(_, _, _)
IsDescendant(nodes, n, anc) ==
    /\ nodes[n].parent # NULL
    /\ \/ nodes[n].parent = anc
       \/ IsDescendant(nodes, nodes[n].parent, anc)

\* the nodes in pre-order, children in list order
RECURSIVE Preorder(_, _)
RECURSIVE PreorderSiblings(_, _)
Preorder(nodes, n) == <<n>> \o PreorderSiblings(nodes, nodes[n].children)
PreorderSiblings(nodes, c) ==
    IF c = NULL THEN <<>>
    ELSE Preorder(nodes, c) \o PreorderSiblings(nodes, nodes[c].next)

PositionIn(seq, x) == CHOOSE i \in 1..Len(seq) : seq[i] = x

\* the node a step from node `from` is to return: the first changed node that
\* follows it in pre-order, not counting its descendants when they are skipped
ExpectedNext(nodes, from, skip) ==
    LET pre == Preorder(nodes, ROOT)
        later == {i \in (PositionIn(pre, from) + 1)..Len(pre) :
                    /\ nodes[pre[i]].state # WORMHOLE_PATH_STATE_UNCHANGED
                    /\ ~(skip /\ IsDescendant(nodes, pre[i], from))}
    IN  IF later = {} THEN NULL
        ELSE pre[CHOOSE i \in later : \A j \in later : i <= j]

YieldedNodes == {yielded[i].node : i \in 1..Len(yielded)}

-----------------------------------------------------------------------------
(* The environment assembler, profiles.c.  A char * is a sequence of        *)
(* characters, the NULL pointer is NULLSTR.                                 *)

\* layer types, config.h
WORMHOLE_LAYER_TYPE_LAYER == 0
WORMHOLE_LAYER_TYPE_REFERENCE == 1
WORMHOLE_LAYER_TYPE_IMAGE == 2

\* path directive types, environment.h
WORMHOLE_PATH_TYPE_HIDE == 0
WORMHOLE_PATH_TYPE_BIND == 1
WORMHOLE_PATH_TYPE_BIND_CHILDREN == 2
WORMHOLE_PATH_TYPE_OVERLAY == 3
WORMHOLE_PATH_TYPE_OVERLAY_CHILDREN == 4
WORMHOLE_PATH_TYPE_MOUNT == 5
WORMHOLE_PATH_TYPE_WORMHOLE == 6

WORMHOLE_ENVIRONMENT_LAYER_MAX == 8

\* wormhole_client_path
WORMHOLE_CLIENT_PATH == <<"/", "w", "h">>

\* where the container runtime mounts an image
ContainerRoot == <<"/", "i", "m", "g">>

LdSoCache == <<"/", "e", "t", "c", "/", "l", "d">>

\* the directive lists of the layers the model is given
UsrPath == <<"/", "u">>
LibPath == <<"/", "l">>

PathInfo(type, path) == [type |-> type, path |-> path]

PathLists ==
    {<<PathInfo(WORMHOLE_PATH_TYPE_BIND, UsrPath)>>,
     <<PathInfo(WORMHOLE_PATH_TYPE_OVERLAY, UsrPath),
       PathInfo(WORMHOLE_PATH_TYPE_BIND, UsrPath)>>,
     <<PathInfo(WORMHOLE_PATH_TYPE_MOUNT, UsrPath),
       PathInfo(WORMHOLE_PATH_TYPE_WORMHOLE, LibPath)>>,
     <<PathInfo(WORMHOLE_PATH_TYPE_HIDE, UsrPath),
       PathInfo(WORMHOLE_PATH_TYPE_BIND, LibPath)>>,
     <<PathInfo(WORMHOLE_PATH_TYPE_BIND_CHILDREN, UsrPath),
       PathInfo(WORMHOLE_PATH_TYPE_OVERLAY_CHILDREN, LibPath)>>}

\* struct wormhole_layer_config: exactly one of directory and image is set
LayerSources ==
    {[type |-> WORMHOLE_LAYER_TYPE_LAYER, directory |-> <<"/", "L">>,
      image |-> NULLSTR, use_ldconfig |-> FALSE],
     [type |-> WORMHOLE_LAYER_TYPE_LAYER, directory |-> <<"/", "L">>,
      image |-> NULLSTR, use_ldconfig |-> TRUE],
     [type |-> WORMHOLE_LAYER_TYPE_LAYER, directory |-> NULLSTR,
      image |-> <<"i">>, use_ldconfig |-> FALSE],
     [type |-> WORMHOLE_LAYER_TYPE_IMAGE, directory |-> NULLSTR,
      image |-> <<"i">>, use_ldconfig |-> FALSE],
     [type |-> WORMHOLE_LAYER_TYPE_IMAGE, directory |-> <<"/", "I">>,
      image |-> NULLSTR, use_ldconfig |-> FALSE]}

LayerConfigs ==
    {[type |-> l.type, directory |-> l.directory, image |-> l.image,
      use_ldconfig |-> l.use_ldconfig, path |-> p] :
        l \in LayerSources, p \in PathLists}

\* the entries readdir returns for the source directory of a bind-children
DirEntries == {<<>>, << <<"x">> >>}

\* wormhole_environment_new
wormhole_environment_new ==
    [layer |-> <<>>, failed |-> FALSE, root_directory |-> NULLSTR,
     tree_state |-> NULL, nsfd |-> -1, sub_daemon_pid |-> 0]

\* __wormhole_environment_add_layer
wormhole_environment_add_layer(e, layer) ==
    IF Len(e.layer) >= WORMHOLE_ENVIRONMENT_LAYER_MAX THEN e
    ELSE [e EXCEPT !.layer = Append(@, layer)]

\* __wormhole_scaffold_insert_prefix
wormhole_scaffold_insert_prefix(prefix, path) ==
    IF prefix = NULLSTR THEN path
    ELSE prefix \o (IF Head(path) = "/" THEN <<>> ELSE <<"/">>) \o path

\* fsutil_strip_path_prefix: what follows the prefix, NULL if it is none
fsutil_strip_path_prefix(path, prefix) ==
    IF Len(path) >= Len(prefix) /\ SubSeq(path, 1, Len(prefix)) = prefix
    THEN SubSeq(path, Len(prefix) + 1, Len(path))
    ELSE NULLSTR

\* __wormhole_scaffold_strip_prefix
wormhole_scaffold_strip_prefix(prefix, path) ==
    IF prefix = NULLSTR THEN path
    ELSE LET rest == fsutil_strip_path_prefix(path, prefix)
         IN  IF rest = NULLSTR \/ rest = <<>> THEN NULLSTR ELSE rest

wormhole_scaffold_source_path(scaffold, path) ==
    wormhole_scaffold_insert_prefix(scaffold.source_dir, path)

wormhole_scaffold_source_path_inverse(scaffold, path) ==
    wormhole_scaffold_strip_prefix(scaffold.source_dir, path)

wormhole_scaffold_dest_path(scaffold, path) ==
    wormhole_scaffold_insert_prefix(scaffold.dest_dir, path)

(* An assembly in progress is a record a: the environment's tree_state and  *)
(* root_directory, the mount calls made so far (log, nops of them), the     *)
(* return value of the last call (ok), the last log_error, and the layer    *)
(* and directive being processed.  The failAt'th mount call fails.          *)

NoError == "none"

StartAssembly(e) ==
    [tree |-> wormhole_tree_state_new, root_directory |-> e.root_directory,
     log |-> <<>>, nops |-> 0, ok |-> TRUE, crashed |-> FALSE,
     error |-> NoError, layer |-> 0, directive |-> 0]

\* mount(2) as fsutil_mount_bind, fsutil_mount_overlay and
\* fsutil_mount_virtual_fs call it, and the container runtime's mount
MountCall(a, op, source, target, failAt) ==
    LET n == a.nops + 1
    IN  [a EXCEPT !.nops = n,
                  !.ok = (n # failAt),
                  !.error = IF n = failAt THEN op ELSE @,
                  !.log = Append(@, [layer |-> a.layer, directive |-> a.directive,
                                     op |-> op, source |-> source,
                                     target |-> target, ok |-> (n # failAt)])]

\* if (!fsutil_mount_...(...)) return false; wormhole_tree_state_set_...(path)
RecordMount(m, path, new_state) ==
    IF ~m.ok THEN m
    ELSE [m EXCEPT !.tree = wormhole_tree_state_set(@, path, new_state).nodes]

\* _pathinfo_bind_one
pathinfo_bind_one(a, source, target, failAt) ==
    RecordMount(MountCall(a, "bind", source, target, failAt),
                target, WORMHOLE_PATH_STATE_BIND_MOUNTED)

\* _pathinfo_overlay_one: the tree records the overlay at source
pathinfo_overlay_one(a, source, target, failAt) ==
    RecordMount(MountCall(a, "overlay", source, target, failAt),
                source, WORMHOLE_PATH_STATE_OVERLAY_MOUNTED)

\* _pathinfo_mount_one
pathinfo_mount_one(a, dest, failAt) ==
    RecordMount(MountCall(a, "mount", NULLSTR, dest, failAt),
                dest, WORMHOLE_PATH_STATE_SYSTEM_MOUNT)

\* pathinfo_bind_path
pathinfo_bind_path(a, scaffold, dest, source, failAt, entries) ==
    pathinfo_bind_one(a, source, dest, failAt)

\* pathinfo_overlay_path: dest and workdir both point into the static buffer
\* of __wormhole_scaffold_insert_prefix when the scaffold has both prefixes,
\* and building workdir then overwrites dest
pathinfo_overlay_path(a, scaffold, dest, source, failAt, entries) ==
    LET pathbuf == <<"/", "w", "o", "r", "k">> \o dest
        workdir == wormhole_scaffold_source_path(scaffold, pathbuf)
        target == IF scaffold.dest_dir # NULLSTR /\ scaffold.source_dir # NULLSTR
                  THEN workdir
                  ELSE dest
    IN  pathinfo_overlay_one(a, source, target, failAt)

\* pathinfo_create_overlay: an overlay over a temporary directory
pathinfo_create_overlay(a, tempdir, where, failAt) ==
    RecordMount(MountCall(a, "overlay", tempdir \o <<"/", "l", "o", "w", "e", "r">>,
                          where, failAt),
                where, WORMHOLE_PATH_STATE_OVERLAY_MOUNTED)

\* the readdir loop of pathinfo_bind_children: o is the assembly after the
\* overlay was created or the last entry was bound
RECURSIVE BindEntries(_, _, _, _, _)
BindEntries(o, dest, source, entries, failAt) ==
    IF ~o.ok \/ entries = <<>> THEN o
    ELSE BindEntries(pathinfo_bind_one(o, source \o <<"/">> \o Head(entries),
                                       dest \o <<"/">> \o Head(entries), failAt),
                     dest, source, Tail(entries), failAt)

\* pathinfo_bind_children
pathinfo_bind_children(a, scaffold, dest, source, failAt, entries) ==
    BindEntries(pathinfo_create_overlay(a, <<"/", "t", "m", "p">>, dest, failAt),
                dest, source, entries, failAt)

\* pathinfo_bind_wormhole
pathinfo_bind_wormhole(a, pi, scaffold, failAt) ==
    pathinfo_bind_one(a, WORMHOLE_CLIENT_PATH,
                      wormhole_scaffold_dest_path(scaffold, pi.path), failAt)

\* the handler pathinfo_process passes to pathinfo_process_glob, called
CallFunc(func, a, scaffold, dest, source, failAt, entries) ==
    CASE func = "pathinfo_bind_path" ->
            pathinfo_bind_path(a, scaffold, dest, source, failAt, entries)
      [] func = "pathinfo_bind_children" ->
            pathinfo_bind_children(a, scaffold, dest, source, failAt, entries)
      [] func = "pathinfo_overlay_path" ->
            pathinfo_overlay_path(a, scaffold, dest, source, failAt, entries)

\* pathinfo_process_glob: the directives of the model have no glob characters,
\* and glob (GLOB_NOMAGIC) returns the pattern itself
pathinfo_process_glob(a, pi, scaffold, func, failAt, entries) ==
    LET pattern == wormhole_scaffold_source_path(scaffold, pi.path)
        source == pattern
        abs_path == wormhole_scaffold_source_path_inverse(scaffold, source)
    IN  IF abs_path = NULLSTR
        THEN [a EXCEPT !.ok = FALSE, !.error = "glob"]
        ELSE CallFunc(func, a, scaffold,
                      wormhole_scaffold_dest_path(scaffold, abs_path),
                      source, failAt, entries)

\* pathinfo_process_mount
pathinfo_process_mount(a, pi, scaffold, failAt) ==
    pathinfo_mount_one(a, wormhole_scaffold_dest_path(scaffold, pi.path), failAt)

\* pathinfo_process
pathinfo_process(a, pi, scaffold, failAt, entries) ==
    IF pi.type = WORMHOLE_PATH_TYPE_HIDE
    THEN [a EXCEPT !.ok = FALSE, !.error = "hide"]
    ELSE CASE pi.type = WORMHOLE_PATH_TYPE_BIND ->
                pathinfo_process_glob(a, pi, scaffold, "pathinfo_bind_path", failAt, entries)
           [] pi.type = WORMHOLE_PATH_TYPE_BIND_CHILDREN ->
                pathinfo_process_glob(a, pi, scaffold, "pathinfo_bind_children", failAt, entries)
           [] pi.type = WORMHOLE_PATH_TYPE_OVERLAY ->
                pathinfo_process_glob(a, pi, scaffold, "pathinfo_overlay_path", failAt, entries)
           [] pi.type = WORMHOLE_PATH_TYPE_MOUNT ->
                pathinfo_process_mount(a, pi, scaffold, failAt)
           [] pi.type = WORMHOLE_PATH_TYPE_WORMHOLE ->
                pathinfo_bind_wormhole(a, pi, scaffold, failAt)
           [] OTHER ->
                [a EXCEPT !.ok = FALSE, !.error = "unsupported"]

\* wormhole_layer_ldconfig: the layer's ld.so.cache is bound over the system's
wormhole_layer_ldconfig(a, overlay_root, failAt) ==
    pathinfo_bind_one(a, overlay_root \o LdSoCache, LdSoCache, failAt)

\* overlay_container_mount: NULL when the container runtime fails
overlay_container_mount(a, image, failAt) ==
    MountCall(a, "container", image, ContainerRoot, failAt)

\* the loop of wormhole_layer_setup over the directives from the i'th on
RECURSIVE PathLoop(_, _, _, _, _, _)
PathLoop(a, layer, scaffold, i, failAt, entries) ==
    IF a.ok /\ i <= Len(layer.path)
    THEN PathLoop(pathinfo_process([a EXCEPT !.directive = i], layer.path[i],
                                   scaffold, failAt, entries),
                  layer, scaffold, i + 1, failAt, entries)
    ELSE a

\* wormhole_layer_setup, after the directives: ldconfig
LayerLdconfig(p, layer, overlay_root, failAt) ==
    IF p.ok /\ layer.use_ldconfig
    THEN wormhole_layer_ldconfig([p EXCEPT !.directive = Len(layer.path) + 1],
                                 overlay_root, failAt)
    ELSE p

\* wormhole_layer_setup, from the scaffold on: r is the assembly with the
\* root directory of this layer
LayerPaths(r, layer, overlay_root, failAt, entries) ==
    LayerLdconfig(
        PathLoop(r, layer,
                 [source_dir |-> IF layer.type = WORMHOLE_LAYER_TYPE_IMAGE
                                 THEN NULLSTR ELSE overlay_root,
                  dest_dir |-> r.root_directory],
                 1, failAt, entries),
        layer, overlay_root, failAt)

\* wormhole_layer_setup, from the test of the layer type on; strdup(NULL)
\* ends the process
LayerRoot(a, layer, overlay_root, failAt, entries) ==
    IF layer.type # WORMHOLE_LAYER_TYPE_IMAGE
    THEN LayerPaths(a, layer, overlay_root, failAt, entries)
    ELSE IF a.root_directory # NULLSTR
    THEN [a EXCEPT !.ok = FALSE, !.error = "root_directory_set"]
    ELSE IF overlay_root = NULLSTR
    THEN [a EXCEPT !.ok = FALSE, !.crashed = TRUE]
    ELSE LayerPaths([a EXCEPT !.root_directory = overlay_root], layer,
                    overlay_root, failAt, entries)

\* wormhole_layer_setup, after the container was mounted: c.ok tells whether
\* overlay_container_mount returned a directory
LayerMounted(c, layer, failAt, entries) ==
    LayerRoot([c EXCEPT !.ok = TRUE], layer,
              IF c.ok THEN ContainerRoot ELSE NULLSTR, failAt, entries)

\* wormhole_layer_setup
wormhole_layer_setup(a, layer, failAt, entries) ==
    IF layer.image # NULLSTR
    THEN LayerMounted(overlay_container_mount([a EXCEPT !.directive = 0],
                                              layer.image, failAt),
                      layer, failAt, entries)
    ELSE LayerRoot(a, layer, layer.directory, failAt, entries)

RECURSIVE LayerLoop(_, _, _, _, _)

\* the loop taking the layers from the last to the first
LayerLoop_descending(a, layers, i, failAt, entries) ==
    IF ~a.ok \/ i > Len(layers) THEN a
    ELSE IF i > 1 /\ layers[i].type = WORMHOLE_LAYER_TYPE_IMAGE
    THEN [a EXCEPT !.ok = FALSE, !.error = "image_not_bottom"]
    ELSE LayerLoop(wormhole_layer_setup([a EXCEPT !.layer = Len(layers) + 1 - i],
                                        layers[Len(layers) + 1 - i],
                                        failAt, entries),
                   layers, i + 1, failAt, entries)

\* the loop without the test for an image layer above the bottom
LayerLoop_any_image(a, layers, i, failAt, entries) ==
    IF ~a.ok \/ i > Len(layers) THEN a
    ELSE LayerLoop(wormhole_layer_setup([a EXCEPT !.layer = i], layers[i],
                                        failAt, entries),
                   layers, i + 1, failAt, entries)

\* the loop of wormhole_environment_setup over the layers from the i'th on:
\* a is the assembly after the layers before it; layer[1] is the code's layer[0]
LayerLoop(a, layers, i, failAt, entries) ==
    IF ~a.ok \/ i > Len(layers) THEN a
    ELSE IF i > 1 /\ layers[i].type = WORMHOLE_LAYER_TYPE_IMAGE
    THEN [a EXCEPT !.ok = FALSE, !.error = "image_not_bottom"]
    ELSE LayerLoop(wormhole_layer_setup([a EXCEPT !.layer = i], layers[i],
                                        failAt, entries),
                   layers, i + 1, failAt, entries)

\* what wormhole_environment_setup leaves and returns, a being the assembly
SetupResult(e, a) ==
    [env |-> [e EXCEPT !.tree_state = a.tree,
                       !.root_directory = a.root_directory],
     ret |-> IF a.crashed THEN "crashed" ELSE IF a.ok THEN "true" ELSE "false",
     log |-> a.log,
     error |-> a.error]

\* wormhole_environment_setup: the environment afterwards, the value
\* returned and the mount calls made
wormhole_environment_setup(e, failAt, entries) ==
    IF e.failed
    THEN [env |-> e, ret |-> "false", log |-> <<>>, error |-> NoError]
    ELSE SetupResult(e, LayerLoop(StartAssembly(e), e.layer, 1, failAt, entries))

NoSetup == [ret |-> "none", log |-> <<>>, error |-> NoError]

\* the number of mount calls an assembly makes when none of them fails
MountCalls(e, entries) == Len(wormhole_environment_setup(e, 0, entries).log)

NoEnv == "(null)"

\* the environments a configuration file defines, and a name none has
EnvNames == {"a", "b"}

MissingName == "m"

\* struct wormhole_layer_config of define-layer, define-image and
\* use-environment
ConfigLayer(type, directory, image, lower_layer_name) ==
    [type |-> type, directory |-> directory, image |-> image,
     lower_layer_name |-> lower_layer_name, use_ldconfig |-> FALSE,
     path |-> <<>>]

LayerP == ConfigLayer(WORMHOLE_LAYER_TYPE_LAYER, <<"/", "p">>, NULLSTR, NoEnv)

LayerC == ConfigLayer(WORMHOLE_LAYER_TYPE_LAYER, <<"/", "c">>, NULLSTR, NoEnv)

LayerI == ConfigLayer(WORMHOLE_LAYER_TYPE_IMAGE, NULLSTR, <<"i">>, NoEnv)

Reference(name) ==
    ConfigLayer(WORMHOLE_LAYER_TYPE_REFERENCE, NULLSTR, NULLSTR, name)

ConfigLayers ==
    {LayerP, LayerC, LayerI} \cup
    {Reference(n) : n \in EnvNames \cup {MissingName}}

\* the layer lists an environment may declare
DeclaredLists == UNION {[1..n -> ConfigLayers] : n \in 0..MaxDeclared}

\* __wormhole_environment_chase_layers over the layers of one
\* environment_config that are still to be visited.  r.env is the
\* environment that is filled in and r.ret what the call returns so far.
\* stack holds, for each call of the recursion in progress, the config it
\* was given and the number of layers the environment had when it was
\* entered: a call that is given the same config with the same number of
\* layers as one in progress repeats it, and the recursion never returns;
\* the process ends when its stack is exhausted.
RECURSIVE ChaseList(_, _, _, _)
ChaseList(cfgs, r, list, stack) ==
    IF r.ret # "true" \/ list = <<>> THEN r
    ELSE IF Head(list).type = WORMHOLE_LAYER_TYPE_REFERENCE
    THEN IF Head(list).lower_layer_name \notin DOMAIN cfgs
         THEN [r EXCEPT !.ret = "false"]
         ELSE IF <<Head(list).lower_layer_name, Len(r.env.layer)>> \in stack
         THEN [r EXCEPT !.ret = "crashed"]
         ELSE ChaseList(cfgs,
                        ChaseList(cfgs, r, cfgs[Head(list).lower_layer_name],
                                  stack \cup {<<Head(list).lower_layer_name,
                                                Len(r.env.layer)>>}),
                        Tail(list), stack)
    ELSE IF Len(r.env.layer) >= WORMHOLE_ENVIRONMENT_LAYER_MAX
    THEN [r EXCEPT !.ret = "false"]
    ELSE ChaseList(cfgs,
                   [r EXCEPT !.env = wormhole_environment_add_layer(@, Head(list))],
                   Tail(list), stack)

\* a variant that splices the layers referred to in after the layers the
\* environment declares itself
IsReference(layer) == layer.type = WORMHOLE_LAYER_TYPE_REFERENCE

NotReference(layer) == layer.type # WORMHOLE_LAYER_TYPE_REFERENCE

wormhole_environment_chase_layers_references_last(cfgs, e, name) ==
    ChaseList(cfgs, [env |-> e, ret |-> "true"],
              SelectSeq(cfgs[name], NotReference)
                  \o SelectSeq(cfgs[name], IsReference),
              {<<name, Len(e.layer)>>})

\* a variant that takes an environment that is not defined for one
\* without layers
wormhole_environment_chase_layers_missing_empty(cfgs, e, name) ==
    ChaseList([n \in DOMAIN cfgs \cup {MissingName} |->
                  IF n \in DOMAIN cfgs THEN cfgs[n] ELSE <<>>],
              [env |-> e, ret |-> "true"], cfgs[name],
              {<<name, Len(e.layer)>>})

\* __wormhole_environment_chase_layers(env, env->config) for the
\* environment object e of the config named name
wormhole_environment_chase_layers(cfgs, e, name) ==
    ChaseList(cfgs, [env |-> e, ret |-> "true"], cfgs[name],
              {<<name, Len(e.layer)>>})

\* a variant that is given the objects of an earlier pass
wormhole_profiles_configure_environments_reuse(cfgs, old) ==
    [name \in DOMAIN cfgs |->
        wormhole_environment_chase_layers(
            cfgs,
            IF old = <<>> THEN wormhole_environment_new ELSE old[name],
            name)]

\* __wormhole_profiles_configure_environments: a new object for each
\* environment_config, then the layers of each are chased.  old is what
\* wormhole_environments held before.
wormhole_profiles_configure_environments(cfgs, old) ==
    [name \in DOMAIN cfgs |->
        wormhole_environment_chase_layers(cfgs, wormhole_environment_new, name)]

\* wormhole_profiles_configure, for a configuration whose profiles name
\* environments it defines: the environments and what is returned
wormhole_profiles_configure(cfgs, old) ==
    LET chased == wormhole_profiles_configure_environments(cfgs, old)
    IN  IF \E n \in DOMAIN cfgs : chased[n].ret = "crashed"
        THEN [environments |-> old, ret |-> "crashed"]
        ELSE [environments |-> [n \in DOMAIN cfgs |-> chased[n].env],
              ret |-> IF \A n \in DOMAIN cfgs : chased[n].ret = "true"
                      THEN "true" ELSE "false"]

\* no configuration is loaded
ConfigIdle ==
    config = [cfgs |-> [n \in EnvNames |-> <<>>], environments |-> <<>>,
              ret |-> "none", passes |-> 0]

-----------------------------------------------------------------------------
(* The daemon's sockets and event loop: socket.c, protocol.c, buffer.h and
   wormhole_daemon.  The environment behind a profile is summarised by
   net.env here; its assembly is what the daemon specification above models. *)

\* struct wormhole_message: four uint16_t
hdrlen == 8
BUF_SZ == 1024
WORMHOLE_PROTOCOL_VERSION == 1
WORMHOLE_PROTOCOL_VERSION_MAJOR == 0
WORMHOLE_OPCODE_STATUS == 0
WORMHOLE_OPCODE_NAMESPACE_REQUEST == 1
WORMHOLE_OPCODE_NAMESPACE_RESPONSE == 2
WORMHOLE_SOCKET_MAX == 1024

MaxClients == 2
MaxMessages == 2

WORMHOLE_PROTOCOL_MAJOR(v) == v \div 256

Min(a, b) == IF a < b THEN a ELSE b

\* A message as a client puts it on the wire: the header fields, and what
\* the payload_len bytes after the header hold: the name of a profile as a
\* string ("p" has an environment, "q" is no profile), an int32 ("int"),
\* or bytes that are neither ("junk").
Message(version, opcode, payload_len, payload) ==
    [version |-> version, opcode |-> opcode, payload_len |-> payload_len,
     payload |-> payload]

GoodRequest == Message(WORMHOLE_PROTOCOL_VERSION,
                       WORMHOLE_OPCODE_NAMESPACE_REQUEST, 6, "p")
NoProfileRequest == Message(WORMHOLE_PROTOCOL_VERSION,
                            WORMHOLE_OPCODE_NAMESPACE_REQUEST, 6, "q")
StatusMessage == Message(WORMHOLE_PROTOCOL_VERSION,
                         WORMHOLE_OPCODE_STATUS, 8, "int")
BadVersion == Message(256 + WORMHOLE_PROTOCOL_VERSION,
                      WORMHOLE_OPCODE_NAMESPACE_REQUEST, 6, "p")
Oversized == Message(WORMHOLE_PROTOCOL_VERSION,
                     WORMHOLE_OPCODE_NAMESPACE_REQUEST, 2 * BUF_SZ, "p")
UnknownOpcode == Message(WORMHOLE_PROTOCOL_VERSION, 9, 6, "p")
BadPayload == Message(WORMHOLE_PROTOCOL_VERSION,
                      WORMHOLE_OPCODE_NAMESPACE_REQUEST, 6, "junk")

\* the messages the clients of the model send
ClientMessages == {GoodRequest, StatusMessage, BadVersion, Oversized,
                   UnknownOpcode}

\* Bytes of a stream, as runs: n bytes of message m, from its first byte on
\* if hdr, from behind its header if not.
Run(m, n, hdr) == [m |-> m, n |-> n, hdr |-> hdr]

RECURSIVE Bytes(_)
Bytes(data) == IF data = <<>> THEN 0 ELSE Head(data).n + Bytes(Tail(data))

\* struct buf; alloc is whether the pointer to it is non-null
NoBuf == [alloc |-> FALSE, head |-> 0, tail |-> 0, data |-> <<>>]
buf_alloc == [NoBuf EXCEPT !.alloc = TRUE]
buf_tailroom(bp) == BUF_SZ - bp.tail
buf_available(bp) == bp.tail - bp.head

\* a reply waiting in sendbuf: the answer to request n, which came from
\* socket `to`, with or without a namespace descriptor
NoReply == [alloc |-> FALSE, to |-> 0, n |-> 0, status |-> 0, fd |-> FALSE]

wormhole_socket_new(ops, id) ==
    [ops |-> ops, id |-> id, recv_closed |-> FALSE, send_closed |-> FALSE,
     recvbuf |-> NoBuf, sendbuf |-> NoReply]

\* the connection of a client as the kernel holds it: the bytes the client
\* has written and the daemon has not read, and whether the client has
\* closed its end
NoWire == [data |-> <<>>, hup |-> FALSE]

\* recvmsg copies the first k bytes of the connection to the tail of the
\* buffer
RECURSIVE Move(_, _, _)
Move(data, wire, k) ==
    IF k = 0 \/ wire = <<>> THEN [data |-> data, wire |-> wire]
    ELSE Move(IF Head(wire).hdr
              THEN Append(data, Run(Head(wire).m, Min(k, Head(wire).n), TRUE))
              ELSE [data EXCEPT ![Len(data)].n = @ + Min(k, Head(wire).n)],
              IF k < Head(wire).n
              THEN <<Run(Head(wire).m, Head(wire).n - k, FALSE)>>
                       \o Tail(wire)
              ELSE Tail(wire),
              k - Min(k, Head(wire).n))

\* __wormhole_message_dissect_header, before it consumes anything.  A
\* buffer whose head is behind a header that was consumed without its
\* payload holds no header the model knows; no run reads one (see
\* NeverReadsPayloadAsHeader).
HeaderComplete(bp) ==
    /\ buf_available(bp) >= hdrlen
    /\ bp.data # <<>>
    /\ Head(bp.data).hdr
    /\ buf_available(bp) >= hdrlen + Head(bp.data).m.payload_len

wormhole_message_complete(bp) == HeaderComplete(bp)

\* __buf_advance_head over the header only
HeaderConsumed(bp) ==
    [bp EXCEPT !.head = @ + hdrlen,
               !.data = IF Head(@).n = hdrlen THEN Tail(@)
                        ELSE <<Run(Head(@).m, Head(@).n - hdrlen, FALSE)>>
                                 \o Tail(@)]

\* wormhole_message_get_payload: the payload is copied and consumed
PayloadConsumed(bp, m) ==
    [bp EXCEPT !.head = @ + hdrlen + m.payload_len, !.data = Tail(@)]

\* wormhole_message_parse_status, _namespace_request, _namespace_response
PayloadParses(m) ==
    CASE m.opcode = WORMHOLE_OPCODE_STATUS -> m.payload = "int"
      [] m.opcode = WORMHOLE_OPCODE_NAMESPACE_REQUEST ->
             m.payload \in {"p", "q"}
      [] m.opcode = WORMHOLE_OPCODE_NAMESPACE_RESPONSE -> m.payload = "int"
      [] OTHER -> FALSE

\* wormhole_message_parse: ret is "parsed", "failed" (NULL is returned) or
\* "fatal" (log_fatal ends the process)
wormhole_message_parse(bp) ==
    IF ~HeaderComplete(bp)
    THEN [bp |-> bp, ret |-> "fatal"]
    ELSE IF WORMHOLE_PROTOCOL_MAJOR(Head(bp.data).m.version)
                # WORMHOLE_PROTOCOL_VERSION_MAJOR
    THEN [bp |-> HeaderConsumed(bp), ret |-> "failed"]
    ELSE IF Head(bp.data).m.payload_len > BUF_SZ
    THEN [bp |-> HeaderConsumed(bp), ret |-> "failed"]
    ELSE IF Head(bp.data).m.payload_len = 0
    THEN [bp |-> HeaderConsumed(bp), ret |-> "failed"]
    ELSE [bp |-> PayloadConsumed(bp, Head(bp.data).m),
          ret |-> IF PayloadParses(Head(bp.data).m) THEN "parsed"
                  ELSE "failed"]

ClientIds == 2..(MaxClients + 1)

\* wormhole_daemon before its loop: the listening socket is installed and
\* has the first socket id
NetIdle ==
    net = [sockets |-> <<wormhole_socket_new("passive", 1)>>,
           socket_id |-> 2,
           requests |-> <<>>, nreq |-> 0,
           env |-> "unset",
           phase |-> "top", status |-> "running",
           backlog |-> 0, nconn |-> 0, nsent |-> 0,
           wire |-> [id \in ClientIds |-> NoWire],
           failed |-> {}, freed |-> {}, sent |-> {}, discarded |-> {}]

-----------------------------------------------------------------------------
(* The digger: digger.c.  Paths below the overlay root are sequences of
   names, <<>> being the overlay root itself; mount points are named the
   same way, relative to the root of the view. *)

IsPrefix(p, q) == Len(p) <= Len(q) /\ SubSeq(q, 1, Len(p)) = p

Prefixes(p) == {SubSeq(p, 1, n) : n \in 0..Len(p)}

\* fsutil_isdir: fs holds the directories that exist and what is in them;
\* a path that is NULL, is not there or is a regular file is in none
fsutil_isdir(fs, p) == p \in fs

fsutil_dir_is_empty(fs, p) == \A q \in fs : IsPrefix(p, q) => q = p

\* fsutil_makedirs, when it succeeds
fsutil_makedirs(fs, p) == fs \cup Prefixes(p)

\* fsutil_remove_recursively, when it succeeds: the path and all beneath it
\* are gone; a path that is not there is no failure
fsutil_remove_recursively(fs, p) == {q \in fs : ~IsPrefix(p, q)}

\* rename(from, to) of a directory, when it succeeds
Renamed(fs, from, to) ==
    {IF IsPrefix(from, q) THEN to \o SubSeq(q, Len(from) + 1, Len(q)) ELSE q :
         q \in fs}

\* rename fails on a destination that is not empty
CanRename(fs, to) == fsutil_dir_is_empty(fs, to)

pathutil_dirname(p) == SubSeq(p, 1, Len(p) - 1)

\* the wait status of the command: it exited with a code, or a signal ended
\* it
WaitStatuses == {[kind |-> "exited", code |-> 0],
                 [kind |-> "exited", code |-> 1],
                 [kind |-> "signaled", code |-> 9]}

WIFSIGNALED(status) == status.kind = "signaled"
WIFEXITED(status) == status.kind = "exited"
WEXITSTATUS(status) == status.code

procutil_child_status_okay(status) ==
    IF WIFSIGNALED(status) THEN FALSE
    ELSE IF ~WIFEXITED(status) THEN FALSE
    ELSE WEXITSTATUS(status) = 0

\* the mounts of the host that remount_filesystems finds in the snapshot,
\* in the order of the walk
Mount(mount_point, fstype) == [mount_point |-> mount_point, fstype |-> fstype]

Snapshots == {<<>>,
              <<Mount(<<"home">>, "ext4")>>,
              <<Mount(<<"home">>, "ext4"), Mount(<<"proc">>, "proc")>>,
              <<Mount(<<"home">>, "ext4"), Mount(<<"srv">>, "ext4")>>}

virtual_filesystems == {"bpf", "cgroup", "cgroup2", "debugfs", "devpts",
                        "devtmpfs", "efivarfs", "hugetlbfs", "mqueue", "proc",
                        "pstore", "securityfs", "sysfs", "tmpfs"}

no_overlay_filesystems == {"fat", "vfat", "nfs"}

SubtreeNames == <<"subtree.0", "subtree.1">>

\* a node of the assembled tree as the walk returns it
TreeNode(mount_point, state, upperdir) ==
    [mount_point |-> mount_point, state |-> state, upperdir |-> upperdir]

\* the calls of a digger run that can fail, in the order of the run
SetupCalls == <<"clean", "makedirs", "namespace", "private", "lower", "tree",
                "work", "root", "bind", "overlay", "umount", "setup",
                "remount", "build", "script", "provides", "command", "fork">>

HarvestCalls == <<"umount", "combine", "subtree", "work", "lower",
                  "build.sh", "build", "provides", "fdopen", "config">>

NoCall == "none"

\* wormhole_digger's options and what it finds: whether --overlay-directory
\* was given and the directory exists, --clean, --build-directory,
\* --build-script
DiggerOptions ==
    [overlay_root : BOOLEAN, exists : BOOLEAN, clean : BOOLEAN,
     build_directory : BOOLEAN, build_script : BOOLEAN]

\* the rest of the command line, the value of SHELL in the environment
\* and whether /bin/bash is installed
DiggerCommands ==
    [command : BOOLEAN, shell : {NoString, "/bin/zsh"}, bash : BOOLEAN]

DiggerStart(opts, mounts) ==
    [opts |-> opts, mounts |-> mounts,
     cmd |-> [command |-> FALSE, shell |-> NoString, bash |-> FALSE],
     argv |-> <<>>,
     fs |-> IF opts.exists THEN {<<>>, <<"old">>} ELSE {}, files |-> {},
     tree |-> <<>>, mount_index |-> 0,
     tree_root |-> [alloc |-> FALSE, path |-> <<>>],
     status |-> [kind |-> "none", code |-> 0], exit_fs |-> {},
     phase |-> "start", ret |-> "none", done |-> {},
     provides_fd |-> <<>>, provides |-> <<>>, namespace |-> FALSE]

DiggerIdle ==
    digger = DiggerStart([overlay_root |-> FALSE, exists |-> FALSE,
                          clean |-> FALSE, build_directory |-> FALSE,
                          build_script |-> FALSE], <<>>)

\* one call of the run: nothing after a failure; false if this call fails
Step(d, failed, after) ==
    IF d.ret = "false" THEN d
    ELSE IF failed THEN [d EXCEPT !.ret = "false"]
    ELSE after

\* wormhole_digger up to fsutil_makedirs(opt_overlay_root), without the
\* test of --clean
OverlayRootMade_always_clean(d, fail) ==
    Step(Step(Step(d, ~d.opts.overlay_root, d),
              fsutil_isdir(d.fs, <<>>) /\ fail = "clean",
              [d EXCEPT !.fs = fsutil_remove_recursively(@, <<>>)]),
         fail = "makedirs",
         [d EXCEPT !.fs = fsutil_makedirs(
                              fsutil_remove_recursively(@, <<>>), <<>>)])

\* wormhole_digger up to fsutil_makedirs(opt_overlay_root)
OverlayRootMade(d, fail) ==
    Step(Step(Step(d, ~d.opts.overlay_root, d),
              fsutil_isdir(d.fs, <<>>) /\ (~d.opts.clean \/ fail = "clean"),
              [d EXCEPT !.fs = fsutil_remove_recursively(@, <<>>)]),
         fail = "makedirs",
         [d EXCEPT !.fs = fsutil_makedirs(
                              fsutil_remove_recursively(@, <<>>), <<>>)])

\* wormhole_create_user_namespace or wormhole_create_namespace, and
\* fsutil_make_fs_private
NamespaceMade(d, fail) ==
    Step(Step(d, fail = "namespace", [d EXCEPT !.namespace = TRUE]),
         fail = "private", [d EXCEPT !.namespace = TRUE])

\* __init_working_dir
init_working_dir(d, fail, name) ==
    Step(d, fail = name, [d EXCEPT !.fs = fsutil_makedirs(@, <<name>>)])

\* the overlay of one mount in remount_filesystems
SubtreeOverlay(d, m) ==
    [d EXCEPT
        !.fs = fsutil_makedirs(
                   fsutil_makedirs(@, <<SubtreeNames[d.mount_index + 1],
                                        "tree">>),
                   <<SubtreeNames[d.mount_index + 1], "work">>),
        !.mount_index = @ + 1,
        !.tree = Append(@, TreeNode(m.mount_point,
                                    WORMHOLE_PATH_STATE_OVERLAY_MOUNTED,
                                    <<SubtreeNames[d.mount_index + 1],
                                      "tree">>))]

\* rebind_filesystem
Rebound(d, m) ==
    [d EXCEPT !.tree = Append(@, TreeNode(m.mount_point,
                                          WORMHOLE_PATH_STATE_BIND_MOUNTED,
                                          <<>>))]

\* remount_filesystems: the walk over the mount snapshot
RECURSIVE remount_filesystems(_, _, _)
remount_filesystems(d, mounts, fail) ==
    IF mounts = <<>> \/ d.ret = "false" THEN d
    ELSE remount_filesystems(
             Step(d, fail = "remount",
                  IF Head(mounts).fstype \in virtual_filesystems
                  THEN Rebound(d, Head(mounts))
                  ELSE IF Head(mounts).fstype \in no_overlay_filesystems
                  THEN d
                  ELSE SubtreeOverlay(d, Head(mounts))),
             Tail(mounts), fail)

\* the four working directories of smoke_and_mirrors
WorkingDirs(d, fail) ==
    init_working_dir(
        init_working_dir(
            init_working_dir(init_working_dir(d, fail, "lower"),
                             fail, "tree"),
            fail, "work"),
        fail, "root")

\* what wormhole_environment_setup does to the tree state of the digger's
\* environment: it is made anew, and nothing gives it a root directory
TreeStateRenewed(d) ==
    [d EXCEPT !.tree = <<>>,
              !.tree_root = [alloc |-> FALSE, path |-> <<>>]]

\* smoke_and_mirrors
smoke_and_mirrors(d, fail) ==
    remount_filesystems(
        Step(WorkingDirs(d, fail),
             fail \in {"bind", "overlay", "umount", "setup"},
             TreeStateRenewed(WorkingDirs(d, fail))),
        d.mounts, fail)

\* __bind_mount_directory and __bind_mount_file for a destination in the
\* view that is not there: it is made in the view, that is in the upper
\* directory of the overlay on root, and the mount is recorded
BindMounted(d, failed, name) ==
    Step(d, failed,
         [d EXCEPT !.fs = @ \cup {<<"tree", name>>},
                   !.tree = Append(@, TreeNode(
                                          <<name>>,
                                          WORMHOLE_PATH_STATE_BIND_MOUNTED,
                                          <<>>))])

\* wormhole_digger: --build-directory
BuildDirectory(d, fail) ==
    IF d.opts.build_directory
    THEN BindMounted(d, fail = "build", "build")
    ELSE d

\* wormhole_digger: --build-script
BuildScript(d, fail) ==
    IF d.opts.build_script
    THEN BindMounted(d, fail = "script", "build.sh")
    ELSE d

\* mount_provides_file
mount_provides_file(d, fail) ==
    BindMounted(d, fail = "provides", "provides")

\* make_argv_shell
make_argv_shell(shell) ==
    IF shell = NoString THEN <<"/bin/sh">> ELSE <<shell>>

\* the argv of wormhole_digger when it comes to the build: the command
\* line, with /build.sh put before it if there is a build script
BuildArgv(d) ==
    (IF d.opts.build_script THEN <<"/build.sh">> ELSE <<>>)
    \o (IF d.cmd.command THEN <<"cmd">> ELSE <<>>)

\* wormhole_digger_build up to the start of the command
CommandStarted(d, fail) ==
    Step(d, fail \in {"command", "fork"},
         [d EXCEPT !.phase = "running",
                   !.argv = IF BuildArgv(d) = <<>>
                            THEN make_argv_shell(d.cmd.shell)
                            ELSE BuildArgv(d)])

\* wormhole_digger until the command runs
DiggerSetup(d, fail) ==
    CommandStarted(
        mount_provides_file(
            BuildScript(
                BuildDirectory(
                    smoke_and_mirrors(
                        NamespaceMade(OverlayRootMade(d, fail), fail),
                        fail),
                    fail),
                fail),
            fail),
        fail)

\* what the command can leave behind: files in the view, which land in the
\* upper directory of the overlay that covers them
CommandWrites(d) ==
    SUBSET ({<<"tree", "usr">>}
            \cup {d.tree[i].upperdir \o <<"f">> :
                      i \in {j \in 1..Len(d.tree) :
                                 d.tree[j].state =
                                     WORMHOLE_PATH_STATE_OVERLAY_MOUNTED}})

\* what the command can leave in the provides file: a sequence of
\* characters
ProvidesFiles ==
    {<<>>, <<"c", "\n">>, <<"c">>, <<"\n">>, <<"c", "\r", "\n">>,
     <<"c", "\n", "\n", "d", "\n">>, <<"c", "\n", "d", "\n">>}

\* procutil_command_run returns with the wait status of the command
CommandExited(d, status, writes, lines) ==
    [d EXCEPT !.status = status,
              !.fs = @ \cup writes,
              !.exit_fs = d.fs \cup writes,
              !.provides_fd = lines,
              !.phase = "exited"]

\* wormhole_digger_build after procutil_command_run, without the check of
\* the wait status
wormhole_digger_build_any_status(d) ==
    d

\* wormhole_digger_build after procutil_command_run
wormhole_digger_build(d) ==
    Step(d, ~procutil_child_status_okay(d.status), d)

Did(d, what) == [d EXCEPT !.done = @ \cup {what}]

\* fsutil_lazy_umount(root_dir) in wormhole_digger
RootDetached(d, fail) ==
    Step(d, fail = "umount", Did(d, "umount"))

\* one node of the walk of combine_tree, without the test for an empty
\* directory
CombineNode_also_empty(d, node, fail) ==
    IF node.state # WORMHOLE_PATH_STATE_OVERLAY_MOUNTED THEN d
    ELSE IF ~fsutil_isdir(d.fs, node.upperdir) THEN d
    ELSE Step(d,
              \/ fail = "combine"
              \/ ~CanRename(d.fs, <<"tree">> \o node.mount_point),
              Did([d EXCEPT !.fs =
                       Renamed(fsutil_makedirs(
                                   @, <<"tree">> \o
                                      pathutil_dirname(node.mount_point)),
                               node.upperdir,
                               <<"tree">> \o node.mount_point)],
                  "rename"))

\* one node of the walk of combine_tree
CombineNode(d, node, fail) ==
    IF node.state # WORMHOLE_PATH_STATE_OVERLAY_MOUNTED THEN d
    ELSE IF ~fsutil_isdir(d.fs, node.upperdir) THEN d
    ELSE IF fsutil_dir_is_empty(d.fs, node.upperdir) THEN d
    ELSE Step(d,
              \/ fail = "combine"
              \/ ~CanRename(d.fs, <<"tree">> \o node.mount_point),
              Did([d EXCEPT !.fs =
                       Renamed(fsutil_makedirs(
                                   @, <<"tree">> \o
                                      pathutil_dirname(node.mount_point)),
                               node.upperdir,
                               <<"tree">> \o node.mount_point)],
                  "rename"))

RECURSIVE CombineWalk(_, _, _)
CombineWalk(d, nodes, fail) ==
    IF nodes = <<>> \/ d.ret = "false" THEN d
    ELSE CombineWalk(CombineNode(d, Head(nodes), fail), Tail(nodes), fail)

combine_tree(d, fail) ==
    CombineWalk(Step(d, FALSE, Did(d, "combine")), d.tree, fail)

\* wormhole_tree_state_clear
wormhole_tree_state_clear_node(node) ==
    [node EXCEPT !.state = WORMHOLE_PATH_STATE_UNCHANGED]

\* one node of the walk of clean_tree
CleanNode(d, i, fail) ==
    IF d.tree[i].state # WORMHOLE_PATH_STATE_OVERLAY_MOUNTED THEN d
    ELSE Step(d, fail = "subtree",
              [d EXCEPT !.fs = fsutil_remove_recursively(
                                   @, pathutil_dirname(d.tree[i].upperdir)),
                        !.tree[i] = wormhole_tree_state_clear_node(@)])

RECURSIVE CleanWalk(_, _, _)
CleanWalk(d, i, fail) ==
    IF i > Len(d.tree) \/ d.ret = "false" THEN d
    ELSE CleanWalk(CleanNode(d, i, fail), i + 1, fail)

\* remove_subdir
remove_subdir(d, fail, name, path) ==
    Step(d, fail = name,
         [d EXCEPT !.fs = fsutil_remove_recursively(@, path)])

\* the end of clean_tree: the root directory of the tree, if it has one
RootRemoved(d, fail) ==
    Step(d, d.tree_root.alloc /\ fail = "root",
         IF d.tree_root.alloc
         THEN [d EXCEPT !.fs = fsutil_remove_recursively(@, d.tree_root.path)]
         ELSE d)

clean_tree(d, fail) ==
    RootRemoved(
        remove_subdir(
            remove_subdir(
                remove_subdir(
                    remove_subdir(
                        remove_subdir(
                            CleanWalk(Step(d, FALSE, Did(d, "clean")),
                                      1, fail),
                            fail, "work", <<"work">>),
                        fail, "lower", <<"lower">>),
                    fail, "build.sh", <<"tree", "build.sh">>),
                fail, "build", <<"tree", "build">>),
            fail, "provides", <<"tree", "provides">>),
        fail)

\* the size of the line buffer of update_provides
LINE_SIZE == 256

\* strcspn: the number of characters of s before the first one of reject
RECURSIVE strcspn(_, _)
strcspn(s, reject) ==
    IF s = <<>> \/ Head(s) \in reject THEN 0
    ELSE 1 + strcspn(Tail(s), reject)

\* fgets: the characters up to and including the first newline, size - 1
\* of them at most
fgets(size, content) ==
    SubSeq(content, 1, Min(size - 1,
                           Min(Len(content), strcspn(content, {"\n"}) + 1)))

\* the loop of update_provides: every line that fgets returns is cut at
\* its first carriage return or newline and appended
RECURSIVE ProvidesRead(_)
ProvidesRead(content) ==
    IF content = <<>> THEN <<>>
    ELSE <<SubSeq(fgets(LINE_SIZE, content), 1,
                  strcspn(fgets(LINE_SIZE, content), {"\r", "\n"}))>>
         \o ProvidesRead(SubSeq(content,
                                Len(fgets(LINE_SIZE, content)) + 1,
                                Len(content)))

update_provides(d, fail) ==
    Step(d, fail = "fdopen",
         Did([d EXCEPT !.provides = @ \o ProvidesRead(d.provides_fd)],
             "provides"))

write_config(d, fail) ==
    Step(d, fail = "config",
         Did([d EXCEPT !.fs = @ \cup {<<".digger.conf">>}], "config"))

\* wormhole_digger once procutil_command_run has returned
DiggerHarvest(d, fail) ==
    write_config(
        update_provides(
            clean_tree(
                combine_tree(
                    RootDetached(wormhole_digger_build(d), fail),
                    fail),
                fail),
            fail),
        fail)

\* the value wormhole_digger returns
Returned(d) ==
    [d EXCEPT !.phase = "done",
              !.ret = IF @ = "false" THEN "false" ELSE "true"]

Elems(s) == {s[i] : i \in 1..Len(s)}

-----------------------------------------------------------------------------
(* The analyser: auto-profile.c.  The tree it looks at is a set of paths
   below the pstree root, each a sequence of names. *)

\* the entries a tree can have, in the order a directory is read
TreeEntries == << <<"etc">>, <<"etc", "magic">>, <<"etc", "sub">>,
                  <<"etc", "sub", "x">>, <<"f">> >>

DT_DIR == "DT_DIR"
DT_REG == "DT_REG"

d_type(p) == IF p \in {<<"etc">>, <<"etc", "sub">>} THEN DT_DIR ELSE DT_REG

\* the trees on disk: every entry lies in a directory that is there
DiskTrees ==
    {t \in SUBSET {TreeEntries[i] : i \in 1..Len(TreeEntries)} :
         \A p \in t : Len(p) > 1 => pathutil_dirname(p) \in t}

\* the lines of a profile: a keyword and its argument
Line(kwd, arg) == [kwd |-> kwd, arg |-> arg]

ProfileLines ==
    {Line(k, a) : k \in {"optional-directory", "ignore", "ignore-if-empty",
                         "ignore-empty-subdirs", "bind"},
                  a \in {<<"etc">>, <<"etc", "sub">>, <<"f">>}}
        \cup {Line("ignore", <<"strays">>)}

Profiles ==
    {<<>>} \cup {<<l>> : l \in ProfileLines}
           \cup {<<k, l>> : k \in ProfileLines, l \in ProfileLines}

\* what the lines of the profile become: the flag and the list of actions
RECURSIVE LoadLines(_, _)
LoadLines(cfg, lines) ==
    IF lines = <<>> THEN cfg
    ELSE IF Head(lines).kwd = "ignore" /\ Head(lines).arg = <<"strays">>
    THEN LoadLines([cfg EXCEPT !.ignore_stray_files = TRUE], Tail(lines))
    ELSE LoadLines([cfg EXCEPT !.actions = Append(@, Head(lines))],
                   Tail(lines))

load_autoprofile_config(lines) ==
    LoadLines([ignore_stray_files |-> FALSE, actions |-> <<>>], lines)

\* the state of a path in the analyser's tree, and the disposition that
\* its user_data points to
NoDisposition == [ignore_empty |-> FALSE, ignore_empty_descendants |-> FALSE]

dir_info_new(ignore_empty, ignore_empty_descendants) ==
    [ignore_empty |-> ignore_empty,
     ignore_empty_descendants |-> ignore_empty_descendants]

NoPathState ==
    [state |-> WORMHOLE_PATH_STATE_UNCHANGED, user_data |-> FALSE,
     disp |-> NoDisposition]

\* autoprofile_state_init: a new tree, no path of which has a state
autoprofile_state_init ==
    [p \in {TreeEntries[i] : i \in 1..Len(TreeEntries)} |-> NoPathState]

\* the perform function of one action: the tree after it, and what it
\* returned
Performed(pstree, ok) == [tree |-> pstree, ok |-> ok]

perform(disk, pstree, a) ==
    IF a.kwd = "optional-directory" THEN Performed(pstree, TRUE)
    ELSE IF a.kwd = "ignore"
    THEN Performed(IF a.arg \in disk
                   THEN [pstree EXCEPT ![a.arg].state =
                                         WORMHOLE_PATH_STATE_IGNORED]
                   ELSE pstree, TRUE)
    ELSE IF a.kwd = "ignore-if-empty"
    THEN Performed([pstree EXCEPT ![a.arg].user_data = TRUE,
                                ![a.arg].disp = dir_info_new(TRUE, FALSE)],
                   TRUE)
    ELSE IF a.kwd = "ignore-empty-subdirs"
    THEN Performed([pstree EXCEPT ![a.arg].user_data = TRUE,
                                ![a.arg].disp = dir_info_new(TRUE, TRUE)],
                   TRUE)
    ELSE IF a.arg \in disk /\ d_type(a.arg) = DT_DIR
    THEN Performed([pstree EXCEPT ![a.arg].state =
                                    WORMHOLE_PATH_STATE_BIND_MOUNTED], TRUE)
    ELSE Performed(pstree, FALSE)

RECURSIVE autoprofile_process(_, _, _)
autoprofile_process(disk, pstree, actions) ==
    IF actions = <<>> THEN Performed(pstree, TRUE)
    ELSE IF ~perform(disk, pstree, Head(actions)).ok
    THEN Performed(perform(disk, pstree, Head(actions)).tree, FALSE)
    ELSE autoprofile_process(disk, perform(disk, pstree, Head(actions)).tree,
                             Tail(actions))

\* struct stray_state: the tree, the stack of directory levels (current is
\* the last), the count
StrayState(pstree, levels, stray_count) ==
    [tree |-> pstree, levels |-> levels, stray_count |-> stray_count]

stray_dir_level(disposition) ==
    [disposition |-> disposition, stray_count |-> 0, stray_children |-> 0]

stray_count(st) ==
    IF st.levels = <<>>
    THEN [st EXCEPT !.stray_count = @ + 1]
    ELSE [st EXCEPT !.stray_count = @ + 1,
                    !.levels[Len(st.levels)].stray_count = @ + 1,
                    !.levels[Len(st.levels)].stray_children = @ + 1]

\* __stray_enter_directory; the disposition of the path, if it has one, is
\* then put on top by the visitor
stray_enter_directory(st, ps) ==
    [st EXCEPT !.levels = Append(@, stray_dir_level(
        IF \/ ps.user_data /\ ps.disp.ignore_empty_descendants
           \/ st.levels # <<>>
              /\ st.levels[Len(st.levels)].disposition
                     .ignore_empty_descendants
        THEN dir_info_new(TRUE, TRUE)
        ELSE IF ps.user_data /\ ps.disp.ignore_empty
        THEN dir_info_new(TRUE, FALSE)
        ELSE NoDisposition))]

\* __stray_leave_directory: the state after it; the level it returns is
\* the last of st.levels
stray_leave_directory(st) ==
    IF Len(st.levels) > 1
    THEN [st EXCEPT !.levels =
              [SubSeq(@, 1, Len(@) - 1) EXCEPT
                   ![Len(st.levels) - 1].stray_count =
                       @ + st.levels[Len(st.levels)].stray_count]]
    ELSE [st EXCEPT !.levels = <<>>,
                    !.stray_count =
                        @ + st.levels[Len(st.levels)].stray_count]

wormhole_tree_state_set_ignore(st, p) ==
    [st EXCEPT !.tree[p].state = WORMHOLE_PATH_STATE_IGNORED]

FTW_SKIP == 2
FTW_CONTINUE == 3
FSUTIL_FTW_PRE_DESCENT == 16
FSUTIL_FTW_POST_DESCENT == 32

Visited(st, rv) == [st |-> st, rv |-> rv]

\* the end of a directory in the visitor, ignoring a directory without
\* any marker as well
PostDescent_any_disposition(st, dir, p) ==
    IF dir.stray_count = 0 /\ dir.disposition.ignore_empty_descendants
    THEN wormhole_tree_state_set_ignore(st, p)
    ELSE IF dir.stray_children = 0
    THEN wormhole_tree_state_set_ignore(st, p)
    ELSE stray_count(st)

\* the end of a directory in the visitor
PostDescent(st, dir, p) ==
    IF dir.stray_count = 0 /\ dir.disposition.ignore_empty_descendants
    THEN wormhole_tree_state_set_ignore(st, p)
    ELSE IF dir.stray_children = 0 /\ dir.disposition.ignore_empty
    THEN wormhole_tree_state_set_ignore(st, p)
    ELSE stray_count(st)

\* __check_for_stray_files_visitor
check_for_stray_files_visitor(st, p, cbflags) ==
    IF st.tree[p].state # WORMHOLE_PATH_STATE_UNCHANGED
    THEN Visited(st, FTW_SKIP)
    ELSE IF cbflags = FSUTIL_FTW_PRE_DESCENT
    THEN Visited(stray_enter_directory(st, st.tree[p]), FTW_CONTINUE)
    ELSE IF d_type(p) # DT_DIR
    THEN Visited(stray_count(st), FTW_CONTINUE)
    ELSE IF cbflags = FSUTIL_FTW_POST_DESCENT
    THEN Visited(PostDescent(stray_leave_directory(st),
                             st.levels[Len(st.levels)], p),
                 FTW_CONTINUE)
    ELSE Visited(stray_count(st), FTW_CONTINUE)

\* the entries of a directory of the tree on disk
Entries(disk, dir) ==
    SelectSeq(TreeEntries,
              LAMBDA p : p \in disk /\ pathutil_dirname(p) = dir)

\* fsutil_ftw with FSUTIL_FTW_PRE_POST_CALLBACK: the callback before the
\* descent into a directory, which can skip it, its entries, the callback
\* after; one callback for anything else
RECURSIVE fsutil_ftw(_, _, _)
FtwEntry(disk, st, p) ==
    IF d_type(p) # DT_DIR
    THEN check_for_stray_files_visitor(st, p, 0).st
    ELSE IF check_for_stray_files_visitor(st, p, FSUTIL_FTW_PRE_DESCENT).rv
                = FTW_SKIP
    THEN st
    ELSE check_for_stray_files_visitor(
             fsutil_ftw(disk,
                        check_for_stray_files_visitor(
                            st, p, FSUTIL_FTW_PRE_DESCENT).st,
                        Entries(disk, p)),
             p, FSUTIL_FTW_POST_DESCENT).st

fsutil_ftw(disk, st, entries) ==
    IF entries = <<>> THEN st
    ELSE fsutil_ftw(disk, FtwEntry(disk, st, Head(entries)), Tail(entries))

\* check_for_stray_files without the test of the count
check_for_stray_files_any_count(st) ==
    TRUE

\* check_for_stray_files, once fsutil_ftw has returned true
check_for_stray_files(st) ==
    st.stray_count = 0

\* a run of the analyser: what it was given, and what it did
AnalyserStart(disk, lines) ==
    [disk |-> disk, lines |-> lines, phase |-> "start",
     config |-> load_autoprofile_config(<<>>),
     tree |-> autoprofile_state_init,
     checked |-> FALSE, stray_count |-> 0, written |-> FALSE, exit |-> 0]

AutoprofileIdle == autoprofile = AnalyserStart({}, <<>>)

\* wormhole_auto_profile from check_for_stray_files on
Finish(a, st, walked, write_ok) ==
    IF ~a.config.ignore_stray_files /\ ~walked
    THEN [a EXCEPT !.exit = 1]
    ELSE IF ~a.config.ignore_stray_files /\ ~check_for_stray_files(st)
    THEN [a EXCEPT !.tree = st.tree, !.checked = TRUE,
                   !.stray_count = st.stray_count, !.exit = 1]
    ELSE IF ~write_ok
    THEN [a EXCEPT !.tree = IF a.config.ignore_stray_files THEN @
                             ELSE st.tree,
                   !.checked = ~a.config.ignore_stray_files,
                   !.stray_count = IF a.config.ignore_stray_files THEN 0
                                    ELSE st.stray_count,
                   !.exit = 1]
    ELSE [a EXCEPT !.tree = IF a.config.ignore_stray_files THEN @
                             ELSE st.tree,
                   !.checked = ~a.config.ignore_stray_files,
                   !.stray_count = IF a.config.ignore_stray_files THEN 0
                                    ELSE st.stray_count,
                   !.written = TRUE, !.exit = 0]

\* wormhole_auto_profile once the profile is loaded
Processed(a, walked, write_ok) ==
    IF ~autoprofile_process(a.disk, a.tree, a.config.actions).ok
    THEN [a EXCEPT !.tree = autoprofile_process(a.disk, a.tree,
                                                a.config.actions).tree,
                   !.exit = 1]
    ELSE Finish([a EXCEPT !.tree = autoprofile_process(
                                       a.disk, a.tree,
                                       a.config.actions).tree],
                fsutil_ftw(a.disk,
                           StrayState(autoprofile_process(
                                          a.disk, a.tree,
                                          a.config.actions).tree,
                                      <<>>, 0),
                           Entries(a.disk, <<>>)),
                walked, write_ok)

\* wormhole_auto_profile
wormhole_auto_profile(a, init_ok, load_ok, walked, write_ok) ==
    IF ~init_ok \/ ~load_ok
    THEN [a EXCEPT !.phase = "done", !.exit = 1]
    ELSE [Processed([a EXCEPT !.config = load_autoprofile_config(a.lines)],
                    walked, write_ok)
             EXCEPT !.phase = "done"]

-----------------------------------------------------------------------------
(* Capabilities: registry.c.  An id is a sequence of characters. *)

WORMHOLE_CAPABILITY_VERSION_MAX == 16

WORMHOLE_VERSION_MISMATCH == 0
WORMHOLE_VERSION_EQUAL == 1
WORMHOLE_VERSION_LESS_THAN == 2
WORMHOLE_VERSION_GREATER_THAN == 4

\* the smallest and the largest character of the model in strcmp's order
Chars == <<"-", ".", "0", "1", "2", "3", "4", "5", "6", "7", "8", "9",
           "a", "c", "d", "p", "q", "r">>

Ord(c) == CHOOSE i \in 1..Len(Chars) : Chars[i] = c

isdigit(c) == c \in {"0", "1", "2", "3", "4", "5", "6", "7", "8", "9"}

\* strcmp: negative, zero or positive
RECURSIVE strcmp(_, _)
strcmp(s, t) ==
    IF s = <<>> /\ t = <<>> THEN 0
    ELSE IF s = <<>> THEN -1
    ELSE IF t = <<>> THEN 1
    ELSE IF Head(s) # Head(t) THEN Ord(Head(s)) - Ord(Head(t))
    ELSE strcmp(Tail(s), Tail(t))

\* struct wormhole_version_atom: string is NULL where has_string is FALSE
Atom(numeric, has_string, string) ==
    [numeric |-> numeric, has_string |-> has_string, string |-> string]

\* wormhole_capability_t
Capability(name, version) == [name |-> name, version |-> version]

\* the loop of wormhole_capability_compare from atom i on
RECURSIVE CompareFrom(_, _, _)
CompareFrom(a, b, i) ==
    IF i > Len(a.version) \/ i > Len(b.version)
    THEN IF Len(a.version) < Len(b.version) THEN WORMHOLE_VERSION_LESS_THAN
         ELSE IF Len(a.version) > Len(b.version)
         THEN WORMHOLE_VERSION_GREATER_THAN
         ELSE WORMHOLE_VERSION_EQUAL
    ELSE IF a.version[i].numeric < b.version[i].numeric
    THEN WORMHOLE_VERSION_LESS_THAN
    ELSE IF a.version[i].numeric > b.version[i].numeric
    THEN WORMHOLE_VERSION_GREATER_THAN
    ELSE IF ~b.version[i].has_string
    THEN IF a.version[i].has_string THEN WORMHOLE_VERSION_LESS_THAN
         ELSE CompareFrom(a, b, i + 1)
    ELSE IF ~a.version[i].has_string THEN WORMHOLE_VERSION_GREATER_THAN
    ELSE IF strcmp(a.version[i].string, b.version[i].string) < 0
    THEN WORMHOLE_VERSION_LESS_THAN
    ELSE IF strcmp(a.version[i].string, b.version[i].string) > 0
    THEN WORMHOLE_VERSION_GREATER_THAN
    ELSE CompareFrom(a, b, i + 1)

\* wormhole_capability_compare with the atoms compared the other way round
wormhole_capability_compare_swapped(a, b) ==
    IF a.name # b.name THEN WORMHOLE_VERSION_MISMATCH
    ELSE CompareFrom(b, a, 1)

wormhole_capability_compare(a, b) ==
    IF a.name # b.name THEN WORMHOLE_VERSION_MISMATCH
    ELSE CompareFrom(a, b, 1)

wormhole_capability_is_greater_or_equal(a, b) ==
    wormhole_capability_compare(a, b)
        \in {WORMHOLE_VERSION_EQUAL, WORMHOLE_VERSION_GREATER_THAN}

\* strrchr and strchr: the index of the character, 0 if it is not there
strrchr(s, c) ==
    IF \E i \in 1..Len(s) : s[i] = c
    THEN CHOOSE i \in 1..Len(s) :
             s[i] = c /\ \A j \in (i + 1)..Len(s) : s[j] # c
    ELSE 0

strchr(s, c) ==
    IF \E i \in 1..Len(s) : s[i] = c
    THEN CHOOSE i \in 1..Len(s) : s[i] = c /\ \A j \in 1..(i - 1) : s[j] # c
    ELSE 0

\* strtoul(word, &end, 10): the number and where it ends
RECURSIVE strtoul(_, _)
strtoul(word, n) ==
    IF word # <<>> /\ isdigit(Head(word))
    THEN strtoul(Tail(word), 10 * n + Ord(Head(word)) - Ord("0"))
    ELSE [numeric |-> n, end |-> word]

\* one atom of the version
ParseAtom(word) ==
    IF isdigit(Head(word))
    THEN Atom(strtoul(word, 0).numeric, TRUE, strtoul(word, 0).end)
    ELSE Atom(0, TRUE, word)

Parse(ok, name, version) == [ok |-> ok, name |-> name, version |-> version]

\* the loop of __wormhole_capability_parse over the words between dots
RECURSIVE ParseWords(_, _, _)
ParseWords(name, version, word) ==
    IF word = <<>> THEN Parse(FALSE, name, version)
    ELSE IF Len(version) >= WORMHOLE_CAPABILITY_VERSION_MAX
    THEN Parse(FALSE, name, version)
    ELSE IF strchr(word, ".") = 0
    THEN Parse(TRUE, name, Append(version, ParseAtom(word)))
    ELSE ParseWords(name,
                    Append(version,
                           ParseAtom(SubSeq(word, 1, strchr(word, ".") - 1))),
                    SubSeq(word, strchr(word, ".") + 1, Len(word)))

\* __wormhole_capability_parse: dash points at the last '-' of the id
capability_parse(id) ==
    IF strrchr(id, "-") = 0 \/ ~isdigit(id[strrchr(id, "-")])
    THEN Parse(FALSE, id, <<>>)
    ELSE ParseWords(SubSeq(id, 1, strrchr(id, "-") - 1), <<>>,
                    SubSeq(id, strrchr(id, "-") + 1, Len(id)))

\* a link of the capability directory: its name, and whether realpath
\* resolves it
Link(d_name, path) == [d_name |-> d_name, path |-> path]

NoBest == [found |-> FALSE, version |-> <<>>, path |-> <<>>]

\* one entry of the directory in __wormhole_capability_get_best_match
BestMatchEntry(search, best, d) ==
    IF Head(d.d_name) = "." THEN best
    ELSE IF ~(/\ Len(d.d_name) > Len(search.name)
              /\ SubSeq(d.d_name, 1, Len(search.name)) = search.name
              /\ d.d_name[Len(search.name) + 1] = "-")
    THEN best
    ELSE IF ~capability_parse(d.d_name).ok THEN best
    ELSE IF /\ wormhole_capability_is_greater_or_equal(
                   capability_parse(d.d_name), search)
            /\ \/ ~best.found
               \/ wormhole_capability_is_greater_or_equal(
                      capability_parse(d.d_name),
                      Capability(capability_parse(d.d_name).name,
                                 best.version))
            /\ d.path # <<>>
    THEN [found |-> TRUE, version |-> capability_parse(d.d_name).version,
          path |-> d.path]
    ELSE best

RECURSIVE BestMatchLoop(_, _, _)
BestMatchLoop(search, best, entries) ==
    IF entries = <<>> THEN best
    ELSE BestMatchLoop(search, BestMatchEntry(search, best, Head(entries)),
                       Tail(entries))

\* __wormhole_capability_get_best_match: the path, <<>> for NULL
wormhole_capability_get_best_match(entries, id) ==
    IF ~capability_parse(id).ok THEN <<>>
    ELSE BestMatchLoop(capability_parse(id), NoBest, entries).path

\* the capability values of the model: one name, up to MaxAtoms atoms
MaxAtoms == 2

Suffixes == {<<>>, <<"a">>, <<"r", "c">>}

Atoms ==
    {Atom(n, FALSE, <<>>) : n \in 1..2}
        \cup {Atom(n, TRUE, s) : n \in 1..2, s \in Suffixes}

Versions == UNION {[1..n -> Atoms] : n \in 0..MaxAtoms}

Capabilities ==
    {Capability(<<"p">>, v) : v \in Versions}
        \cup {Capability(<<"q">>, <<Atom(1, FALSE, <<>>)>>)}

\* the ids of the model: p3-d-3.8 and the links p3-d-3.7.9, p3-d-3.8.1,
\* p3-d-3.8.0rc, q-1
Required == <<"p", "3", "-", "d", "-", "3", ".", "8">>
Link379 == <<"p", "3", "-", "d", "-", "3", ".", "7", ".", "9">>
Link381 == <<"p", "3", "-", "d", "-", "3", ".", "8", ".", "1">>
Link380rc == <<"p", "3", "-", "d", "-", "3", ".", "8", ".", "0", "r", "c">>
LinkQ1 == <<"q", "-", "1">>

RequiredIds == {Required, <<"p", "3", "-", "d", "-", "4">>, LinkQ1,
                <<"p", "3", "-", "d">>}

\* the config a link points at; <<>> for a link that dangles
PathOf(d_name) == <<"/", "c">> \o d_name

Links == {Link(n, PathOf(n)) : n \in {Link379, Link381, Link380rc, LinkQ1}}
             \cup {Link(Link381, <<>>)}

\* the directory as readdir returns it: its links in any order
MaxLinks == 3

Directories ==
    {d \in UNION {[1..n -> Links] : n \in 0..MaxLinks} :
         \A i, j \in 1..Len(d) : i # j => d[i].d_name # d[j].d_name}

RegistryStart(a, b, id, entries) ==
    [a |-> a, b |-> b, result |-> WORMHOLE_VERSION_MISMATCH,
     id |-> id, entries |-> entries, best |-> <<>>, phase |-> "start"]

RegistryIdle ==
    registry = RegistryStart(Capability(<<>>, <<>>), Capability(<<>>, <<>>),
                             <<>>, <<>>)

-----------------------------------------------------------------------------
(* Writing a configuration and reading it back: config.c.  A file is a
   sequence of lines, a line the sequence of words parser_next_word finds
   in it; "" stands for a string that is NULL. *)

FilePathInfo(type, path, fstype, device, options) ==
    [type |-> type, path |-> path, fstype |-> fstype, device |-> device,
     options |-> options]

\* wormhole_layer_config_new
LayerConfig(type) ==
    [type |-> type, directory |-> NoString, image |-> NoString,
     lower_layer_name |-> NoString, use_ldconfig |-> FALSE, path |-> <<>>]

\* __wormhole_environment_config_new
EnvironmentConfig(name) ==
    [name |-> name, provides |-> <<>>, requires |-> <<>>, layers |-> <<>>]

\* __wormhole_profile_config_new
ProfileConfig(name) ==
    [name |-> name, wrapper |-> NoString, command |-> NoString,
     environment |-> NoString]

\* __wormhole_config_new, without the client path
NoConfig == [environments |-> <<>>, profiles |-> <<>>]

\* what fprintf("%s") leaves in the file, as the words the parser finds:
\* "(null)" for NULL, which parser_next_word reads as "(" and "null)"
Printed(s) == IF s = NoString THEN <<"(", "null)">> ELSE <<s>>

pathinfo_action_to_directive(action) ==
    IF action = WORMHOLE_PATH_TYPE_HIDE THEN "hide"
    ELSE IF action = WORMHOLE_PATH_TYPE_BIND THEN "bind"
    ELSE IF action = WORMHOLE_PATH_TYPE_BIND_CHILDREN THEN "bind-children"
    ELSE IF action = WORMHOLE_PATH_TYPE_OVERLAY THEN "overlay"
    ELSE IF action = WORMHOLE_PATH_TYPE_OVERLAY_CHILDREN
    THEN "overlay-children"
    ELSE IF action = WORMHOLE_PATH_TYPE_MOUNT THEN "mount"
    ELSE IF action = WORMHOLE_PATH_TYPE_WORMHOLE THEN "wormhole"
    ELSE NoString

Written(ok, out) == [ok |-> ok, out |-> out]

\* the line of one path directive
PathLine(pi) ==
    IF pi.type = WORMHOLE_PATH_TYPE_MOUNT
    THEN <<pathinfo_action_to_directive(pi.type)>> \o Printed(pi.path)
         \o (IF pi.fstype # NoString THEN <<pi.fstype>> ELSE <<>>)
         \o (IF pi.device # NoString THEN <<pi.device>> ELSE <<>>)
         \o (IF pi.options # NoString THEN <<pi.options>> ELSE <<>>)
    ELSE <<pathinfo_action_to_directive(pi.type)>> \o Printed(pi.path)

RECURSIVE PathLines(_)
PathLines(path) ==
    IF path = <<>> THEN <<>>
    ELSE <<PathLine(Head(path))>> \o PathLines(Tail(path))

\* __wormhole_layer_config_write
layer_config_write(output) ==
    IF output.type \notin {WORMHOLE_LAYER_TYPE_LAYER,
                           WORMHOLE_LAYER_TYPE_IMAGE}
    THEN Written(FALSE, <<>>)
    ELSE Written(TRUE,
             << <<IF output.type = WORMHOLE_LAYER_TYPE_LAYER
                  THEN "define-layer" ELSE "define-image", "{">>,
                <<"directory">> \o Printed(output.directory),
                <<>> >>
             \o (IF output.use_ldconfig
                 THEN << <<"use", "ldconfig">>, <<>> >> ELSE <<>>)
             \o PathLines(output.path)
             \o << <<"}">>, <<"}">> >>)

RECURSIVE LayersWritten(_)
LayersWritten(layers) ==
    IF layers = <<>> THEN Written(TRUE, <<>>)
    ELSE Written(layer_config_write(Head(layers)).ok
                     /\ LayersWritten(Tail(layers)).ok,
                 layer_config_write(Head(layers)).out
                     \o LayersWritten(Tail(layers)).out)

RECURSIVE KeywordLines(_, _)
KeywordLines(kwd, values) ==
    IF values = <<>> THEN <<>>
    ELSE << <<kwd>> \o Printed(Head(values)) >>
         \o KeywordLines(kwd, Tail(values))

\* __wormhole_environment_config_write
environment_config_write(e) ==
    Written(LayersWritten(e.layers).ok,
            << <<"environment">> \o Printed(e.name) \o <<"{">> >>
            \o KeywordLines("provides", e.provides)
            \o KeywordLines("requires", e.requires)
            \o (IF e.provides # <<>> \/ e.requires # <<>>
                THEN << <<>> >> ELSE <<>>)
            \o LayersWritten(e.layers).out)

RECURSIVE EnvironmentsWritten(_)
EnvironmentsWritten(envs) ==
    IF envs = <<>> THEN Written(TRUE, <<>>)
    ELSE Written(environment_config_write(Head(envs)).ok
                     /\ EnvironmentsWritten(Tail(envs)).ok,
                 environment_config_write(Head(envs)).out
                     \o EnvironmentsWritten(Tail(envs)).out)

ProfileWritten(profile) ==
    << <<>>, <<"profile">> \o Printed(profile.name) \o <<"{">> >>
    \o (IF profile.wrapper # NoString
        THEN << <<"wrapper", profile.wrapper>> >> ELSE <<>>)
    \o (IF profile.environment # NoString
        THEN << <<"environment", profile.environment>> >> ELSE <<>>)
    \o (IF profile.command # NoString
        THEN << <<"command", profile.command>> >> ELSE <<>>)
    \o << <<"}">> >>

RECURSIVE ProfilesWritten(_)
ProfilesWritten(profiles) ==
    IF profiles = <<>> THEN <<>>
    ELSE ProfileWritten(Head(profiles)) \o ProfilesWritten(Tail(profiles))

\* __wormhole_config_write
wormhole_config_write(cfg) ==
    Written(EnvironmentsWritten(cfg.environments).ok,
            EnvironmentsWritten(cfg.environments).out
                \o ProfilesWritten(cfg.profiles))

\* what a parsing function returns: whether it succeeded, the object it
\* worked on, and the lines not yet read
Parsed3(ok, obj, rest) == [ok |-> ok, obj |-> obj, rest |-> rest]

\* __wormhole_config_process_string, for a line whose first word was the
\* keyword
process_string(line) ==
    IF Len(line) < 2 THEN [ok |-> FALSE, value |-> NoString]
    ELSE [ok |-> Len(line) = 2, value |-> line[2]]

\* the words of the model that start with '/'
AbsolutePaths == {"/d", "/p"}

\* ___wormhole_config_layer_add_path: the path info is added before the
\* path is looked at
config_layer_add_path(layer, type, line) ==
    [ok |-> Len(line) >= 2 /\ line[2] \in AbsolutePaths,
     layer |-> [layer EXCEPT !.path = Append(@,
                    FilePathInfo(type,
                                 IF Len(line) >= 2 /\ line[2] \in AbsolutePaths
                                 THEN line[2] ELSE NoString,
                                 NoString, NoString, NoString))]]

\* __wormhole_config_layer_add_mount: the words after the path are the
\* file system type; the type and the options; or the type, the device and
\* the options
config_layer_add_mount(layer, line) ==
    IF ~config_layer_add_path(layer, WORMHOLE_PATH_TYPE_MOUNT, line).ok
    THEN config_layer_add_path(layer, WORMHOLE_PATH_TYPE_MOUNT, line)
    ELSE [ok |-> Len(line) \in 3..5,
          layer |-> [layer EXCEPT !.path = Append(@,
              FilePathInfo(WORMHOLE_PATH_TYPE_MOUNT, line[2],
                           IF Len(line) >= 3 THEN line[3] ELSE NoString,
                           IF Len(line) >= 5 THEN line[4] ELSE NoString,
                           IF Len(line) >= 5 THEN line[5]
                           ELSE IF Len(line) = 4 THEN line[4]
                           ELSE NoString))]]

PathKeywords ==
    [bind |-> WORMHOLE_PATH_TYPE_BIND,
     overlay |-> WORMHOLE_PATH_TYPE_OVERLAY,
     wormhole |-> WORMHOLE_PATH_TYPE_WORMHOLE]

\* __wormhole_config_overlay_directive
config_overlay_directive(layer, line) ==
    IF line[1] = "directory"
    THEN [ok |-> process_string(line).ok,
          layer |-> [layer EXCEPT !.directory = process_string(line).value]]
    ELSE IF line[1] = "image"
    THEN [ok |-> process_string(line).ok,
          layer |-> [layer EXCEPT !.image = process_string(line).value]]
    ELSE IF line[1] = "use"
    THEN [ok |-> process_string(line).ok
                     /\ process_string(line).value = "ldconfig",
          layer |-> [layer EXCEPT !.use_ldconfig =
                         @ \/ (process_string(line).ok
                               /\ process_string(line).value = "ldconfig")]]
    ELSE IF line[1] \in DOMAIN PathKeywords
    THEN [ok |-> config_layer_add_path(layer, PathKeywords[line[1]], line).ok
                     /\ Len(line) = 2,
          layer |-> config_layer_add_path(layer, PathKeywords[line[1]],
                                          line).layer]
    ELSE IF line[1] = "bind-children"
    THEN [ok |-> config_layer_add_path(
                        layer, WORMHOLE_PATH_TYPE_BIND_CHILDREN, line).ok
                     /\ Len(line) = 2,
          layer |-> config_layer_add_path(
                        layer, WORMHOLE_PATH_TYPE_BIND_CHILDREN, line).layer]
    ELSE IF line[1] = "overlay-children"
    THEN [ok |-> config_layer_add_path(
                        layer, WORMHOLE_PATH_TYPE_OVERLAY_CHILDREN, line).ok
                     /\ Len(line) = 2,
          layer |-> config_layer_add_path(
                        layer, WORMHOLE_PATH_TYPE_OVERLAY_CHILDREN,
                        line).layer]
    ELSE IF line[1] = "mount"
    THEN config_layer_add_mount(layer, line)
    ELSE [ok |-> FALSE, layer |-> layer]

\* the loop of wormhole_config_process_block over the lines of a layer
RECURSIVE LayerBlock(_, _)
LayerBlock(layer, lines) ==
    IF lines = <<>> THEN Parsed3(FALSE, layer, <<>>)
    ELSE IF Head(lines) = <<>> THEN LayerBlock(layer, Tail(lines))
    ELSE IF Head(lines)[1] = "}" THEN Parsed3(TRUE, layer, Tail(lines))
    ELSE IF ~config_overlay_directive(layer, Head(lines)).ok
    THEN Parsed3(FALSE, config_overlay_directive(layer, Head(lines)).layer,
                 Tail(lines))
    ELSE LayerBlock(config_overlay_directive(layer, Head(lines)).layer,
                    Tail(lines))

\* wormhole_config_process_block for a layer: the word after the keyword
\* opens the block, and without such a word there is no block
LayerParsed(layer, line, rest) ==
    IF Len(line) < 2 THEN Parsed3(TRUE, layer, rest)
    ELSE IF line[2] # "{" THEN Parsed3(FALSE, layer, rest)
    ELSE LayerBlock(layer, rest)

\* define-layer and define-image in __wormhole_config_environment_directive
DefineLayer(e, type, line, rest) ==
    Parsed3(/\ LayerParsed(LayerConfig(type), line, rest).ok
            /\ (LayerParsed(LayerConfig(type), line, rest).obj.directory
                    # NoString)
               # (LayerParsed(LayerConfig(type), line, rest).obj.image
                    # NoString),
            [e EXCEPT !.layers = Append(@,
                 LayerParsed(LayerConfig(type), line, rest).obj)],
            LayerParsed(LayerConfig(type), line, rest).rest)

\* __wormhole_config_environment_directive
config_environment_directive(e, line, rest) ==
    IF line[1] \in {"define-layer", "overlay"}
    THEN DefineLayer(e, WORMHOLE_LAYER_TYPE_LAYER, line, rest)
    ELSE IF line[1] = "define-image"
    THEN DefineLayer(e, WORMHOLE_LAYER_TYPE_IMAGE, line, rest)
    ELSE IF line[1] \in {"use-environment", "layer"}
    THEN Parsed3(process_string(line).ok,
                 [e EXCEPT !.layers = Append(@,
                      [LayerConfig(WORMHOLE_LAYER_TYPE_REFERENCE) EXCEPT
                           !.lower_layer_name = process_string(line).value])],
                 rest)
    ELSE IF line[1] = "provides"
    THEN Parsed3(process_string(line).ok,
                 IF Len(line) >= 2
                 THEN [e EXCEPT !.provides = Append(@, line[2])] ELSE e,
                 rest)
    ELSE IF line[1] = "requires"
    THEN Parsed3(process_string(line).ok,
                 IF Len(line) >= 2
                 THEN [e EXCEPT !.requires = Append(@, line[2])] ELSE e,
                 rest)
    ELSE Parsed3(FALSE, e, rest)

\* the loop of wormhole_config_process_block over the lines of an
\* environment
RECURSIVE EnvironmentBlock(_, _)
EnvironmentBlock(e, lines) ==
    IF lines = <<>> THEN Parsed3(FALSE, e, <<>>)
    ELSE IF Head(lines) = <<>> THEN EnvironmentBlock(e, Tail(lines))
    ELSE IF Head(lines)[1] = "}" THEN Parsed3(TRUE, e, Tail(lines))
    ELSE IF ~config_environment_directive(e, Head(lines), Tail(lines)).ok
    THEN config_environment_directive(e, Head(lines), Tail(lines))
    ELSE EnvironmentBlock(
             config_environment_directive(e, Head(lines), Tail(lines)).obj,
             config_environment_directive(e, Head(lines), Tail(lines)).rest)

\* wormhole_config_process_environment
config_process_environment(cfg, line, rest) ==
    IF Len(line) < 2 THEN Parsed3(FALSE, cfg, rest)
    ELSE IF \E i \in 1..Len(cfg.environments) :
                cfg.environments[i].name = line[2]
    THEN Parsed3(FALSE, cfg, rest)
    ELSE IF Len(line) < 3
    THEN Parsed3(TRUE,
                 [cfg EXCEPT !.environments =
                      Append(@, EnvironmentConfig(line[2]))],
                 rest)
    ELSE IF line[3] # "{"
    THEN Parsed3(FALSE,
                 [cfg EXCEPT !.environments =
                      Append(@, EnvironmentConfig(line[2]))],
                 rest)
    ELSE Parsed3(EnvironmentBlock(EnvironmentConfig(line[2]), rest).ok,
                 [cfg EXCEPT !.environments =
                      Append(@, EnvironmentBlock(EnvironmentConfig(line[2]),
                                                 rest).obj)],
                 EnvironmentBlock(EnvironmentConfig(line[2]), rest).rest)

\* __wormhole_config_profile_directive
config_profile_directive(profile, line) ==
    IF line[1] = "wrapper"
    THEN [ok |-> process_string(line).ok,
          profile |-> [profile EXCEPT !.wrapper = process_string(line).value]]
    ELSE IF line[1] = "command"
    THEN [ok |-> process_string(line).ok,
          profile |-> [profile EXCEPT !.command = process_string(line).value]]
    ELSE IF line[1] = "environment"
    THEN [ok |-> process_string(line).ok,
          profile |-> [profile EXCEPT
                           !.environment = process_string(line).value]]
    ELSE [ok |-> FALSE, profile |-> profile]

RECURSIVE ProfileBlock(_, _)
ProfileBlock(profile, lines) ==
    IF lines = <<>> THEN Parsed3(FALSE, profile, <<>>)
    ELSE IF Head(lines) = <<>> THEN ProfileBlock(profile, Tail(lines))
    ELSE IF Head(lines)[1] = "}" THEN Parsed3(TRUE, profile, Tail(lines))
    ELSE IF ~config_profile_directive(profile, Head(lines)).ok
    THEN Parsed3(FALSE, config_profile_directive(profile, Head(lines)).profile,
                 Tail(lines))
    ELSE ProfileBlock(config_profile_directive(profile, Head(lines)).profile,
                      Tail(lines))

\* wormhole_config_process_profile
config_process_profile(cfg, line, rest) ==
    IF Len(line) < 2 THEN Parsed3(FALSE, cfg, rest)
    ELSE IF \E i \in 1..Len(cfg.profiles) : cfg.profiles[i].name = line[2]
    THEN Parsed3(FALSE, cfg, rest)
    ELSE IF Len(line) < 3
    THEN Parsed3(TRUE,
                 [cfg EXCEPT !.profiles = Append(@, ProfileConfig(line[2]))],
                 rest)
    ELSE IF line[3] # "{"
    THEN Parsed3(FALSE,
                 [cfg EXCEPT !.profiles = Append(@, ProfileConfig(line[2]))],
                 rest)
    ELSE Parsed3(ProfileBlock(ProfileConfig(line[2]), rest).ok,
                 [cfg EXCEPT !.profiles =
                      Append(@, ProfileBlock(ProfileConfig(line[2]),
                                             rest).obj)],
                 ProfileBlock(ProfileConfig(line[2]), rest).rest)

\* __wormhole_config_toplevel_directive, for the keywords a written file
\* can hold
config_toplevel_directive(cfg, line, rest) ==
    IF line[1] = "profile" THEN config_process_profile(cfg, line, rest)
    ELSE IF line[1] = "environment"
    THEN config_process_environment(cfg, line, rest)
    ELSE Parsed3(FALSE, cfg, rest)

\* __wormhole_config_process_file
RECURSIVE config_process_file(_, _)
config_process_file(cfg, lines) ==
    IF lines = <<>> THEN Parsed3(TRUE, cfg, <<>>)
    ELSE IF Head(lines) = <<>> THEN config_process_file(cfg, Tail(lines))
    ELSE IF ~config_toplevel_directive(cfg, Head(lines), Tail(lines)).ok
    THEN config_toplevel_directive(cfg, Head(lines), Tail(lines))
    ELSE config_process_file(
             config_toplevel_directive(cfg, Head(lines), Tail(lines)).obj,
             config_toplevel_directive(cfg, Head(lines), Tail(lines)).rest)

\* The configurations that are written: at most MaxConfigLayers layers in
\* the first environment, an optional second environment and an optional
\* profile.
MaxConfigLayers == 2

MountInfos ==
    {FilePathInfo(WORMHOLE_PATH_TYPE_MOUNT, "/p", "tmpfs", dev, opt) :
         dev \in {NoString, "dev"}, opt \in {NoString, "ro"}}

FilePathInfos ==
    MountInfos
    \cup {FilePathInfo(t, "/p", NoString, NoString, NoString) :
              t \in {WORMHOLE_PATH_TYPE_BIND, WORMHOLE_PATH_TYPE_OVERLAY,
                     WORMHOLE_PATH_TYPE_HIDE}}

FileLayerConfigs ==
    {[LayerConfig(WORMHOLE_LAYER_TYPE_LAYER) EXCEPT
          !.directory = "/d", !.use_ldconfig = u, !.path = p] :
         u \in BOOLEAN, p \in {<<>>} \cup {<<pi>> : pi \in FilePathInfos}}
    \cup {[LayerConfig(WORMHOLE_LAYER_TYPE_IMAGE) EXCEPT !.directory = "/d"],
          [LayerConfig(WORMHOLE_LAYER_TYPE_IMAGE) EXCEPT !.image = "img"],
          [LayerConfig(WORMHOLE_LAYER_TYPE_REFERENCE) EXCEPT
               !.lower_layer_name = "e2"]}

LayerSequences ==
    UNION {[1..n -> FileLayerConfigs] : n \in 0..MaxConfigLayers}

SecondEnvironment ==
    [EnvironmentConfig("e2") EXCEPT
         !.layers = <<[LayerConfig(WORMHOLE_LAYER_TYPE_LAYER) EXCEPT
                           !.directory = "/d"]>>]

SomeProfile ==
    [ProfileConfig("p1") EXCEPT !.command = "/p", !.environment = "e1"]

FileConfigs ==
    {[environments |->
          <<[name |-> "e1", provides |-> pr, requires |-> rq,
             layers |-> ls]>> \o more,
      profiles |-> pf] :
         pr \in {<<>>, <<"cap">>}, rq \in {<<>>, <<"req">>},
         ls \in LayerSequences, more \in {<<>>, <<SecondEnvironment>>},
         pf \in {<<>>, <<SomeProfile>>}}

ConfigFileStart(cfg, phase) ==
    [cfg |-> cfg, phase |-> phase, written |-> FALSE, text |-> <<>>,
     loaded_ok |-> FALSE, loaded |-> NoConfig]

ConfigFileIdle == cfgfile = ConfigFileStart(NoConfig, "idle")

\* the idle state of the variables of the tools that follow
RestIdle == RegistryIdle /\ ConfigFileIdle

-----------------------------------------------------------------------------
EnvIdle == env = wormhole_environment_new /\ setup = NoSetup

\* the profiles of the daemon's configuration, each with an environment of
\* its own, named as the profile is
Envs == {"A", "B"}

\* the one layer each of these environments is configured with
DaemonLayer ==
    [type |-> WORMHOLE_LAYER_TYPE_LAYER, directory |-> <<"/", "L">>,
     image |-> NULLSTR, use_ldconfig |-> FALSE,
     path |-> <<PathInfo(WORMHOLE_PATH_TYPE_BIND, UsrPath)>>]

\* the daemon after it has read its configuration: no setup context, no
\* child, no request, at the top of its main loop
DaemonIdle ==
    daemon = [envs |-> [e \in Envs |->
                          wormhole_environment_add_layer(wormhole_environment_new,
                                                         DaemonLayer)],
              ctx |-> <<>>, ctx_list |-> NULL,
              procs |-> <<>>,
              requests |-> <<>>, nreq |-> 0, replies |-> <<>>,
              phase |-> "reap", dead |-> FALSE,
              ub |-> FALSE, env |-> NoEnv, sock |-> NULL, reply_sent |-> FALSE]

TreeIdle ==
    /\ tree = wormhole_tree_state_new
    /\ walker = NoWalker
    /\ ret = NoRet
    /\ yielded = <<>>
    /\ created = {}
    /\ skipUsed = FALSE

\* wormhole_environment_new
EnvInit == TreeIdle /\ EnvIdle /\ DaemonIdle /\ ConfigIdle /\ NetIdle /\ DiggerIdle
    /\ AutoprofileIdle /\ RestIdle

\* __wormhole_environment_add_layer, from the configuration, before any setup
AddLayer(layer, limit) ==
    /\ setup.ret = "none"
    /\ Len(env.layer) < limit
    /\ env' = wormhole_environment_add_layer(env, layer)
    /\ UNCHANGED <<notEnvVars, setup>>

\* what the call did and returned
SetupRecord(r) == [ret |-> r.ret, log |-> r.log, error |-> r.error]

\* wormhole_environment_setup
EnvironmentSetup(failAt, entries) ==
    /\ setup.ret # "crashed"
    /\ env' = wormhole_environment_setup(env, failAt, entries).env
    /\ setup' = SetupRecord(wormhole_environment_setup(env, failAt, entries))
    /\ UNCHANGED notEnvVars

EnvNext ==
    \/ \E layer \in LayerConfigs : AddLayer(layer, MaxLayers)
    \/ \E entries \in DirEntries :
          \E failAt \in 0..MountCalls(env, entries) :
              EnvironmentSetup(failAt, entries)

SpecEnv == EnvInit /\ [][EnvNext]_vars

-----------------------------------------------------------------------------
(* The operations on the tree, called while no walk is in progress *)

TreeInit == TreeIdle /\ EnvIdle /\ DaemonIdle /\ ConfigIdle /\ NetIdle /\ DiggerIdle
    /\ AutoprofileIdle /\ RestIdle

\* wormhole_path_state_node_lookup(tree, path, true), as a caller's own lookup
LookupCreate(path, limit) ==
    /\ ~walker.active
    /\ Growth(tree, path) + Len(tree) <= limit + 1
    /\ LET r == wormhole_path_state_node_lookup(tree, path, TRUE)
       IN  /\ tree' = r.nodes
           /\ ret' = [op |-> "lookup", node |-> r.node,
                      canonical_spelling |-> (path = CanonicalForm(path)),
                      grown |-> Len(r.nodes) - Len(tree)]
    /\ created' = created \cup PathPrefixes(CanonicalForm(path))
    /\ UNCHANGED <<notTreeVars, walker, yielded, skipUsed>>

\* wormhole_path_tree_get / wormhole_tree_state_get_user_data: create=false
LookupNoCreate(path) ==
    /\ ~walker.active
    /\ LET r == wormhole_path_state_node_lookup(tree, path, FALSE)
       IN  /\ tree' = r.nodes
           /\ ret' = [op |-> "get", node |-> r.node,
                      canonical_spelling |-> (path = CanonicalForm(path)),
                      grown |-> Len(r.nodes) - Len(tree)]
    /\ UNCHANGED <<notTreeVars, walker, yielded, created, skipUsed>>

\* wormhole_tree_state_set_bind_mounted and the other setters
TreeSet(path, new_state, limit) ==
    /\ ~walker.active
    /\ Growth(tree, path) + Len(tree) <= limit + 1
    /\ tree' = wormhole_tree_state_set(tree, path, new_state).nodes
    /\ ret' = [op |-> "set"]
    /\ created' = created \cup PathPrefixes(CanonicalForm(path))
    /\ UNCHANGED <<notTreeVars, walker, yielded, skipUsed>>

\* wormhole_tree_state_clear
TreeClear(path, limit) ==
    /\ ~walker.active
    /\ Growth(tree, path) + Len(tree) <= limit + 1
    /\ tree' = wormhole_tree_state_set(tree, path, WORMHOLE_PATH_STATE_UNCHANGED).nodes
    /\ ret' = [op |-> "clear"]
    /\ created' = created \cup PathPrefixes(CanonicalForm(path))
    /\ UNCHANGED <<notTreeVars, walker, yielded, skipUsed>>

\* wormhole_tree_state_set_user_data
TreeSetUserData(path, limit) ==
    /\ ~walker.active
    /\ Growth(tree, path) + Len(tree) <= limit + 1
    /\ tree' = wormhole_tree_state_set_user_data(tree, path).nodes
    /\ ret' = [op |-> "set_user_data"]
    /\ created' = created \cup PathPrefixes(CanonicalForm(path))
    /\ UNCHANGED <<notTreeVars, walker, yielded, skipUsed>>

\* wormhole_tree_walk
WalkStart ==
    /\ ~walker.active
    /\ walker' = [active |-> TRUE, pos |-> ROOT, skip_children |-> FALSE]
    /\ ret' = [op |-> "walk"]
    /\ yielded' = <<>>
    /\ skipUsed' = FALSE
    /\ UNCHANGED <<notTreeVars, tree, created>>

\* wormhole_tree_walk_next
WalkNext ==
    /\ walker.active
    /\ LET r == wormhole_tree_walk_next(tree, walker)
       IN  /\ walker' = r.t
           /\ ret' = [op |-> "walk_next", from |-> walker.pos,
                      skip |-> walker.skip_children, node |-> r.node]
           /\ yielded' = IF r.node = NULL THEN yielded
                         ELSE Append(yielded,
                                [node |-> r.node,
                                 path |-> wormhole_path_state_node_to_path(tree, r.node),
                                 state |-> tree[r.node].state])
    /\ UNCHANGED <<notTreeVars, tree, created, skipUsed>>

\* wormhole_tree_walk_skip_children
WalkSkipChildren ==
    /\ walker.active
    /\ walker' = [walker EXCEPT !.skip_children = TRUE]
    /\ ret' = [op |-> "skip_children"]
    /\ skipUsed' = TRUE
    /\ UNCHANGED <<notTreeVars, tree, yielded, created>>

\* wormhole_tree_walk_end
WalkEnd ==
    /\ walker.active
    /\ walker' = NoWalker
    /\ ret' = [op |-> "walk_end"]
    /\ yielded' = <<>>
    /\ skipUsed' = FALSE
    /\ UNCHANGED <<notTreeVars, tree, created>>

\* The tree and its lookups
TreeNext ==
    \/ \E path \in AbsPaths : LookupCreate(path, MaxLookupNodes)
    \/ \E path \in AbsPaths : LookupNoCreate(path)
    \/ \E path \in AbsPaths, s \in SetStates : TreeSet(path, s, MaxLookupNodes)
    \/ \E path \in AbsPaths : TreeClear(path, MaxLookupNodes)
    \/ \E path \in AbsPaths : TreeSetUserData(path, MaxLookupNodes)

SpecTree == TreeInit /\ [][TreeNext]_vars

\* A tree is filled in and walked
WalkSpecNext ==
    \/ \E path \in AbsPaths, s \in SetStates : TreeSet(path, s, MaxNodes)
    \/ \E path \in AbsPaths : TreeClear(path, MaxNodes)
    \/ WalkStart
    \/ WalkNext
    \/ WalkSkipChildren
    \/ WalkEnd

SpecWalk == TreeInit /\ [][WalkSpecNext]_vars

-----------------------------------------------------------------------------
(* The daemon (wormhole.c) and its asynchronous environment setup          *)
(* (async-setup.c).                                                        *)
(*                                                                         *)
(* daemon.ctx is the heap of struct wormhole_async_env_ctx, a context's    *)
(* address being its index; a context that free() was called on stays in   *)
(* the heap with freed = TRUE.  daemon.procs are the children forked, a    *)
(* child's pid being its index.  The socket a setup helper reports on has  *)
(* the helper's pid as its id, and a descriptor of the mount namespace a   *)
(* helper created is named by the helper's pid, as is every duplicate.     *)
(* daemon.ub, env, sock and reply_sent hold what an operation in progress  *)
(* returned; they are reset when the operation is over.                    *)

WORMHOLE_STATUS_OK == 0
WORMHOLE_STATUS_ERROR == 1

\* the value of a prev pointer that points at wormhole_async_env_ctx_list;
\* one that points at the next field of a context is the context's index
ListHead == -1

\* a walk of the context list from c for the context whose field has the
\* value: the context found, and whether the walk read a freed context
RECURSIVE CtxWalk(_, _, _, _, _)
CtxWalk(ctx, c, field, value, ub) ==
    IF c = NULL THEN [ctx |-> NULL, ub |-> ub]
    ELSE IF ctx[c][field] = value THEN [ctx |-> c, ub |-> ub \/ ctx[c].freed]
    ELSE CtxWalk(ctx, ctx[c].next, field, value, ub \/ ctx[c].freed)

wormhole_async_env_ctx_for_pid(d, pid) ==
    CtxWalk(d.ctx, d.ctx_list, "child_pid", pid, FALSE)

wormhole_async_env_ctx_for_socket(d, id) ==
    CtxWalk(d.ctx, d.ctx_list, "sock_id", id, FALSE)

\* wormhole_async_env_ctx_for_environment(env, false)
wormhole_async_env_ctx_for_environment(d, e) ==
    CtxWalk(d.ctx, d.ctx_list, "env", e, FALSE)

\* the daemon after the walk f
Touched(d, f) == [d EXCEPT !.ub = @ \/ f.ub]

\* calloc, and the new context put at the head of the list: its prev
\* pointer stays NULL
wormhole_async_env_ctx_new(d, e) ==
    [d EXCEPT !.ctx = Append(@, [prev |-> NULL, next |-> d.ctx_list,
                                 child_pid |-> 0, sock_id |-> 0,
                                 env |-> e, freed |-> FALSE]),
              !.ctx_list = Len(d.ctx) + 1]

wormhole_async_env_ctx_unlink(d, c) ==
    LET next == d.ctx[c].next
        prev == d.ctx[c].prev
        d1 == IF next # NULL THEN [d EXCEPT !.ctx[next].prev = prev] ELSE d
        d2 == IF prev = NULL THEN d1
              ELSE IF prev = ListHead THEN [d1 EXCEPT !.ctx_list = next]
              ELSE [d1 EXCEPT !.ctx[prev].next = next]
    IN  [d2 EXCEPT !.ctx[c].next = NULL, !.ctx[c].prev = NULL]

\* free(ctx); on a context that was freed before it is a double free
free(d, c) == [d EXCEPT !.ctx[c].freed = TRUE, !.ub = @ \/ d.ctx[c].freed]

wormhole_async_env_ctx_release(d, c) ==
    IF d.ctx[c].child_pid = 0 /\ d.ctx[c].sock_id = 0
    THEN free(wormhole_async_env_ctx_unlink(d, c), c)
    ELSE d

wormhole_environment_set_fd(e, fd) == [e EXCEPT !.nsfd = fd]

\* wormhole_environment_fd_received, for a message that carries the
\* descriptor fd: what it returns is ignored by the socket code
wormhole_environment_fd_received(d, id, fd) ==
    LET f == wormhole_async_env_ctx_for_socket(d, id)
    IN  IF f.ctx = NULL THEN Touched(d, f)
        ELSE wormhole_async_env_ctx_release(
                 [Touched(d, f) EXCEPT
                     !.envs[d.ctx[f.ctx].env] =
                         wormhole_environment_set_fd(@, fd),
                     !.ctx[f.ctx].sock_id = 0],
                 f.ctx)

\* a child the daemon forked
Child(kind, e, copy) ==
    [kind |-> kind, env |-> e, copy |-> copy, state |-> "running",
     status_ok |-> FALSE, sent |-> FALSE, fd_read |-> FALSE]

\* wormhole_environment_async_setup once it has the context c: d.sock is
\* the socket it returns
AsyncSetupFork(d, c, e, fork_ok) ==
    IF d.ctx[c].child_pid # 0 \/ d.ctx[c].sock_id # 0
    THEN [d EXCEPT !.sock = NULL]
    ELSE IF ~fork_ok THEN [d EXCEPT !.sock = NULL]
    ELSE [d EXCEPT !.procs = Append(@, Child("helper", e, d.envs[e])),
                   !.ctx[c].child_pid = Len(d.procs) + 1,
                   !.ctx[c].sock_id = Len(d.procs) + 1,
                   !.sock = Len(d.procs) + 1]

\* the parent's side of wormhole_environment_async_setup
wormhole_environment_async_setup(d, e, fork_ok) ==
    LET f == wormhole_async_env_ctx_for_environment(d, e)
    IN  IF f.ctx # NULL
        THEN AsyncSetupFork(Touched(d, f), f.ctx, e, fork_ok)
        ELSE AsyncSetupFork(wormhole_async_env_ctx_new(Touched(d, f), e),
                            Len(d.ctx) + 1, e, fork_ok)

\* wormhole_environment_async_complete: d.env is the environment it returns
wormhole_environment_async_complete(d, pid, status_ok) ==
    LET f == wormhole_async_env_ctx_for_pid(d, pid)
    IN  IF f.ctx = NULL THEN [Touched(d, f) EXCEPT !.env = NoEnv]
        ELSE wormhole_async_env_ctx_release(
                 [Touched(d, f) EXCEPT
                     !.ctx[f.ctx].child_pid = 0,
                     !.ctx[f.ctx].sock_id = IF status_ok THEN @ ELSE 0,
                     !.envs[d.ctx[f.ctx].env].failed = ~status_ok,
                     !.env = d.ctx[f.ctx].env],
                 f.ctx)

\* the parent's side of wormhole_start_sub_daemon, and what
\* wormhole_reap_children does when it returns false
wormhole_start_sub_daemon(d, e, fork_ok) ==
    IF fork_ok
    THEN [d EXCEPT !.procs = Append(@, Child("sub_daemon", e, d.envs[e])),
                   !.envs[e].sub_daemon_pid = Len(d.procs) + 1]
    ELSE [d EXCEPT !.envs[e].failed = TRUE]

\* wormhole_reap_children after wormhole_environment_async_complete
ReapedEnv(d, fork_ok) ==
    IF d.env = NoEnv THEN d
    ELSE IF d.envs[d.env].failed THEN d
    ELSE IF d.envs[d.env].sub_daemon_pid = 0
    THEN wormhole_start_sub_daemon(d, d.env, fork_ok)
    ELSE d

\* one turn of the loop of wormhole_reap_children, for the exited child pid
wormhole_reap_children(d, pid, status_ok, fork_ok) ==
    ReapedEnv(wormhole_environment_async_complete(d, pid, status_ok), fork_ok)

\* -1, or the descriptor wormhole_profile_namespace_fd duplicates
wormhole_profile_namespace_fd(e) ==
    IF ~e.failed /\ e.nsfd >= 0 THEN e.nsfd ELSE -1

\* __wormhole_respond: the reply goes to the client and the request is
\* marked as answered
wormhole_respond(d, e, status, fd) ==
    [d EXCEPT !.replies = Append(@, [env |-> e, status |-> status, fd |-> fd]),
              !.reply_sent = TRUE]

\* wormhole_process_namespace_request after wormhole_environment_async_setup
SetupStarted(d, e) ==
    IF d.sock = NULL
    THEN [wormhole_respond(d, e, WORMHOLE_STATUS_ERROR, -1)
             EXCEPT !.envs[e].failed = TRUE]
    ELSE d

\* wormhole_process_namespace_request from wormhole_environment_async_check on
CheckAndSetup(d, e, fork_ok) ==
    LET f == wormhole_async_env_ctx_for_environment(d, e)
    IN  IF f.ctx # NULL THEN Touched(d, f)
        ELSE SetupStarted(
                 wormhole_environment_async_setup(Touched(d, f), e, fork_ok), e)

\* a variant that starts a setup whatever the state of the environment is
wormhole_process_namespace_request_unchecked(d, e, fork_ok) ==
    IF wormhole_profile_namespace_fd(d.envs[e]) >= 0
    THEN wormhole_respond(d, e, WORMHOLE_STATUS_OK,
                          wormhole_profile_namespace_fd(d.envs[e]))
    ELSE SetupStarted(wormhole_environment_async_setup(d, e, fork_ok), e)

\* wormhole_process_namespace_request, for a request that names the
\* profile of environment e
wormhole_process_namespace_request(d, e, fork_ok) ==
    IF wormhole_profile_namespace_fd(d.envs[e]) >= 0
    THEN wormhole_respond(d, e, WORMHOLE_STATUS_OK,
                          wormhole_profile_namespace_fd(d.envs[e]))
    ELSE IF d.envs[e].failed
    THEN wormhole_respond(d, e, WORMHOLE_STATUS_ERROR, -1)
    ELSE CheckAndSetup(d, e, fork_ok)

\* wormhole_process_pending_requests: the loop stops at the first request
\* that got no reply
RECURSIVE wormhole_process_pending_requests(_, _)
PendingRequestDone(d, fork_ok) ==
    IF d.reply_sent
    THEN wormhole_process_pending_requests([d EXCEPT !.requests = Tail(@)],
                                           fork_ok)
    ELSE d

wormhole_process_pending_requests(d, fork_ok) ==
    IF d.requests = <<>> THEN d
    ELSE PendingRequestDone(
             wormhole_process_namespace_request(
                 [d EXCEPT !.reply_sent = FALSE], Head(d.requests), fork_ok),
             fork_ok)

\* the daemon when an operation is over
Settled(d) ==
    [d EXCEPT !.ub = FALSE, !.env = NoEnv, !.sock = NULL, !.reply_sent = FALSE]

\* An operation that read or wrote a freed context has undefined
\* behaviour.  Two outcomes are modelled: the freed memory still holds what
\* was last written to it, and the operation goes on with that; or the
\* daemon crashes or hangs, and does nothing any more.
Outcomes(r, d) ==
    IF r.ub THEN {Settled(r), [d EXCEPT !.dead = TRUE]} ELSE {Settled(r)}

\* the daemon as the next operation finds it: the replies of the last turn
\* are with the clients
Before(d) == [d EXCEPT !.replies = <<>>]

\* fork fails when the process limit is reached, and may fail before
ForkOutcomes == IF Len(daemon.procs) < MaxChildren THEN BOOLEAN ELSE {FALSE}

Pids == DOMAIN daemon.procs

DaemonInit == TreeIdle /\ EnvIdle /\ DaemonIdle /\ ConfigIdle /\ NetIdle /\ DiggerIdle
    /\ AutoprofileIdle /\ RestIdle

\* wormhole_message_consume: a namespace request for the profile of e has
\* arrived on a client socket and is put at the head of the request list
ClientRequest(e) ==
    /\ ~daemon.dead
    /\ daemon.phase = "poll"
    /\ daemon.nreq < MaxRequests
    /\ daemon' = [Before(daemon) EXCEPT !.requests = <<e>> \o @,
                                        !.nreq = @ + 1]
    /\ UNCHANGED notDaemonVars

\* the socket of helper pid is readable: wormhole_environment_fd_received
FdReceived(pid) ==
    /\ ~daemon.dead
    /\ daemon.phase = "poll"
    /\ daemon.procs[pid].kind = "helper"
    /\ daemon.procs[pid].sent
    /\ ~daemon.procs[pid].fd_read
    /\ daemon' \in Outcomes(
           wormhole_environment_fd_received(
               [Before(daemon) EXCEPT !.procs[pid].fd_read = TRUE], pid, pid),
           Before(daemon))
    /\ UNCHANGED notDaemonVars

\* poll has returned and the sockets are dealt with: back to the top of
\* the loop of wormhole_daemon
PollReturn ==
    /\ ~daemon.dead
    /\ daemon.phase = "poll"
    /\ daemon' = [Before(daemon) EXCEPT !.phase = "reap"]
    /\ UNCHANGED notDaemonVars

\* wormhole_reap_children finds that child pid has exited
ReapChild(pid, fork_ok) ==
    /\ ~daemon.dead
    /\ daemon.phase = "reap"
    /\ daemon.procs[pid].state = "exited"
    /\ daemon' \in Outcomes(
           wormhole_reap_children(
               [Before(daemon) EXCEPT !.procs[pid].state = "reaped"],
               pid, daemon.procs[pid].status_ok, fork_ok),
           Before(daemon))
    /\ UNCHANGED notDaemonVars

\* no exited child is left: wormhole_process_pending_requests, then poll
ProcessPendingRequests(fork_ok) ==
    /\ ~daemon.dead
    /\ daemon.phase = "reap"
    /\ \A pid \in Pids : daemon.procs[pid].state # "exited"
    /\ daemon' \in Outcomes(
           wormhole_process_pending_requests(
               [Before(daemon) EXCEPT !.phase = "poll"], fork_ok),
           Before(daemon))
    /\ UNCHANGED notDaemonVars

\* the child's side of wormhole_environment_async_setup: the namespace is
\* created and the environment assembled on the child's copy of it; then
\* the descriptor is sent, or log_fatal ends the child
HelperSetup(pid, ns_ok, failAt) ==
    /\ daemon.procs[pid].kind = "helper"
    /\ daemon.procs[pid].state = "running"
    /\ ~daemon.procs[pid].sent
    /\ daemon' =
         IF ns_ok /\ wormhole_environment_setup(daemon.procs[pid].copy,
                                                failAt, <<>>).ret = "true"
         THEN [Before(daemon) EXCEPT !.procs[pid].sent = TRUE]
         ELSE [Before(daemon) EXCEPT !.procs[pid].state = "exited"]
    /\ UNCHANGED notDaemonVars

\* exit(0) at the end of wormhole_environment_async_setup
HelperExit(pid) ==
    /\ daemon.procs[pid].kind = "helper"
    /\ daemon.procs[pid].state = "running"
    /\ daemon.procs[pid].sent
    /\ daemon' = [Before(daemon) EXCEPT !.procs[pid].state = "exited",
                                        !.procs[pid].status_ok = TRUE]
    /\ UNCHANGED notDaemonVars

\* the sub-daemon of an environment ends
SubDaemonExit(pid) ==
    /\ daemon.procs[pid].kind = "sub_daemon"
    /\ daemon.procs[pid].state = "running"
    /\ daemon' = [Before(daemon) EXCEPT !.procs[pid].state = "exited"]
    /\ UNCHANGED notDaemonVars

DaemonNext ==
    \/ \E e \in Envs : ClientRequest(e)
    \/ \E pid \in Pids : FdReceived(pid)
    \/ PollReturn
    \/ \E pid \in Pids, fork_ok \in ForkOutcomes : ReapChild(pid, fork_ok)
    \/ \E fork_ok \in ForkOutcomes : ProcessPendingRequests(fork_ok)
    \/ \E pid \in Pids, ns_ok \in BOOLEAN :
          \E failAt \in 0..MountCalls(daemon.procs[pid].copy, <<>>) :
              HelperSetup(pid, ns_ok, failAt)
    \/ \E pid \in Pids : HelperExit(pid)
    \/ \E pid \in Pids : SubDaemonExit(pid)

SpecDaemon == DaemonInit /\ [][DaemonNext]_vars

\* the message of helper pid does not reach wormhole_environment_fd_received
\* with its descriptor: recvmsg fails on the receiving socket, or the
\* descriptor is dropped and the handler returns at "missing file
\* descriptor" before it looks for the context
FdLost(pid) ==
    /\ ~daemon.dead
    /\ daemon.phase = "poll"
    /\ daemon.procs[pid].kind = "helper"
    /\ daemon.procs[pid].sent
    /\ ~daemon.procs[pid].fd_read
    /\ daemon' = [Before(daemon) EXCEPT !.procs[pid].fd_read = TRUE]
    /\ UNCHANGED notDaemonVars

DaemonLossyNext ==
    \/ DaemonNext
    \/ \E pid \in Pids : FdLost(pid)

\* helper pid is still at its setup: it has neither sent its descriptor
\* nor ended
HelperSettingUp(pid) ==
    /\ pid \in DOMAIN daemon.procs
    /\ daemon.procs[pid].kind = "helper"
    /\ daemon.procs[pid].state = "running"
    /\ ~daemon.procs[pid].sent

\* The daemon with its scheduling.  The loop of wormhole_daemon goes on:
\* poll returns, and the pass that reaps the children and processes the
\* pending requests reaches the next poll unless the daemon has died.
\* Every helper runs to its end: its setup ends, and after sending the
\* descriptor it exits.  What a helper sent is read from its socket in
\* some pass of the loop, with the descriptor or without.  Clients and
\* sub-daemons are free to do nothing.
SpecDaemonFair ==
    /\ DaemonInit
    /\ [][DaemonLossyNext]_vars
    /\ WF_vars(PollReturn)
    /\ []<>(daemon.dead \/ daemon.phase = "poll")
    /\ \A pid \in 1..MaxChildren : []<>(~HelperSettingUp(pid))
    /\ WF_vars(\E pid \in Pids : HelperExit(pid))
    /\ SF_vars(\E pid \in Pids : FdReceived(pid) \/ FdLost(pid))

-----------------------------------------------------------------------------
(* Loading a configuration: wormhole_profiles_configure (profiles.c) *)

\* a configuration file has been parsed: each environment it defines
\* declares a list of layers
ConfigInit ==
    /\ TreeIdle /\ EnvIdle /\ DaemonIdle /\ NetIdle /\ DiggerIdle
    /\ AutoprofileIdle /\ RestIdle
    /\ config \in {[cfgs |-> c, environments |-> <<>>, ret |-> "none",
                    passes |-> 0] : c \in [EnvNames -> DeclaredLists]}

\* wormhole_profiles_configure(config)
Configure ==
    /\ config.ret # "crashed"
    /\ config.passes < MaxPasses
    /\ config' =
         [config EXCEPT
             !.environments =
                 wormhole_profiles_configure(config.cfgs, @).environments,
             !.ret = wormhole_profiles_configure(config.cfgs,
                                                 config.environments).ret,
             !.passes = @ + 1]
    /\ UNCHANGED notConfigVars

ConfigNext == Configure

SpecConfig == ConfigInit /\ [][ConfigNext]_vars

-----------------------------------------------------------------------------
(* The event loop of the daemon *)

Installed(d) == {d.sockets[i].id : i \in 1..Len(d.sockets)}

\* a variant that takes the socket accepted last for one that is gone
wormhole_socket_find_or_newest(d, id) ==
    IF id \in Installed(d)
    THEN CHOOSE i \in 1..Len(d.sockets) : d.sockets[i].id = id
    ELSE IF d.sockets[Len(d.sockets)].ops = "connected"
    THEN Len(d.sockets)
    ELSE NULL

\* wormhole_socket_find: the place of the socket in the list, or NULL
wormhole_socket_find(d, id) ==
    IF id \in Installed(d)
    THEN CHOOSE i \in 1..Len(d.sockets) : d.sockets[i].id = id
    ELSE NULL

KeepOthers(sockets, id) ==
    IF \A i \in 1..Len(sockets) : sockets[i].id # id THEN sockets
    ELSE [j \in 1..(Len(sockets) - 1) |->
              IF j < (CHOOSE i \in 1..Len(sockets) : sockets[i].id = id)
              THEN sockets[j] ELSE sockets[j + 1]]

\* wormhole_socket_free: wormhole_uninstall_socket, close, the buffers are
\* dropped
wormhole_socket_free(d, id) ==
    [d EXCEPT !.sockets = KeepOthers(@, id), !.freed = @ \cup {id}]

wormhole_install_socket(d, s) ==
    IF Len(d.sockets) >= WORMHOLE_SOCKET_MAX
    THEN [d EXCEPT !.status = "aborted"]
    ELSE [d EXCEPT !.sockets = Append(@, s)]

\* wormhole_socket_fail without the end of receiving
wormhole_socket_fail_send_only(d, i) ==
    [d EXCEPT !.sockets[i].send_closed = TRUE,
              !.failed = @ \cup {d.sockets[i].id}]

\* wormhole_socket_fail, and its line in the error log
wormhole_socket_fail(d, i) ==
    [d EXCEPT !.sockets[i].recv_closed = TRUE,
              !.sockets[i].send_closed = TRUE,
              !.failed = @ \cup {d.sockets[i].id}]

wormhole_request_new(d, i, m) ==
    [socket_id |-> d.sockets[i].id, opcode |-> m.opcode,
     profile |-> m.payload, n |-> d.nreq + 1]

\* wormhole_request_list_insert: at the head of the list
wormhole_enqueue_request_incoming(d, req) ==
    [d EXCEPT !.requests = <<req>> \o @, !.nreq = @ + 1]

\* wormhole_message_consume once wormhole_message_parse has returned p for
\* message m
Parsed(d, i, m, p) ==
    CASE p.ret = "fatal" -> [d EXCEPT !.status = "fatal"]
      [] p.ret = "failed" ->
             wormhole_socket_fail([d EXCEPT !.sockets[i].recvbuf = p.bp], i)
      [] OTHER ->
             wormhole_enqueue_request_incoming(
                 [d EXCEPT !.sockets[i].recvbuf = p.bp],
                 wormhole_request_new(d, i, m))

wormhole_message_consume(d, i) ==
    IF ~wormhole_message_complete(d.sockets[i].recvbuf) THEN d
    ELSE Parsed(d, i, Head(d.sockets[i].recvbuf.data).m,
                wormhole_message_parse(d.sockets[i].recvbuf))

\* wormhole_socket_enqueue, with its assertions
wormhole_socket_enqueue(d, i, reply) ==
    IF d.sockets[i].sendbuf.alloc
    THEN [d EXCEPT !.status = "aborted"]
    ELSE [d EXCEPT !.sockets[i].sendbuf = reply]

\* __wormhole_respond: the reply goes to the socket with the id the request
\* came from, if there is one, and is discarded otherwise; d.discarded
\* records the replies that were discarded
Respond(d, req, i, status, fd) ==
    IF i = NULL
    THEN [d EXCEPT !.discarded = @ \cup {[to |-> req.socket_id, n |-> req.n]}]
    ELSE wormhole_socket_enqueue(d, i, [alloc |-> TRUE, to |-> req.socket_id,
                                        n |-> req.n, status |-> status,
                                        fd |-> fd])

RespondTo(d, req, status, fd) ==
    [d |-> Respond(d, req, wormhole_socket_find(d, req.socket_id), status, fd),
     reply_sent |-> TRUE]

\* wormhole_process_request; for a namespace request the environment of the
\* profile decides: its namespace is there, its setup has failed, is under
\* way, or is started now
wormhole_process_request(d, req) ==
    CASE req.opcode # WORMHOLE_OPCODE_NAMESPACE_REQUEST ->
             RespondTo(d, req, WORMHOLE_STATUS_ERROR, FALSE)
      [] req.opcode = WORMHOLE_OPCODE_NAMESPACE_REQUEST /\ req.profile # "p" ->
             RespondTo(d, req, WORMHOLE_STATUS_ERROR, FALSE)
      [] OTHER ->
             CASE d.env = "ready" ->
                      RespondTo(d, req, WORMHOLE_STATUS_OK, TRUE)
               [] d.env = "failed" ->
                      RespondTo(d, req, WORMHOLE_STATUS_ERROR, FALSE)
               [] d.env = "pending" -> [d |-> d, reply_sent |-> FALSE]
               [] OTHER -> [d |-> [d EXCEPT !.env = "pending"],
                            reply_sent |-> FALSE]

\* wormhole_process_pending_requests: from the head of the list, until a
\* request has no reply yet
RECURSIVE wormhole_process_pending_requests_net(_)
RequestProcessed(r) ==
    IF r.reply_sent /\ r.d.status = "running"
    THEN wormhole_process_pending_requests_net(
             [r.d EXCEPT !.requests = Tail(@)])
    ELSE r.d

wormhole_process_pending_requests_net(d) ==
    IF d.requests = <<>> THEN d
    ELSE RequestProcessed(wormhole_process_request(d, Head(d.requests)))

\* the poll member of the socket's ops: the events to wait for, none if the
\* socket is to be freed
SocketPoll(s) ==
    CASE s.ops = "passive" -> {"POLLIN"}
      [] s.ops = "connected" /\ s.sendbuf.alloc -> {"POLLOUT"}
      [] s.ops = "connected" /\ ~s.sendbuf.alloc /\ ~s.recv_closed ->
             {"POLLIN"}
      [] OTHER -> {}

\* the first loop over the sockets in wormhole_daemon
RECURSIVE PollPass(_, _)
PollPass(d, ids) ==
    IF ids = <<>> THEN d
    ELSE PollPass(IF SocketPoll(d.sockets[wormhole_socket_find(d, Head(ids))])
                         = {}
                  THEN wormhole_socket_free(d, Head(ids))
                  ELSE d,
                  Tail(ids))

SocketIds(d) == [i \in 1..Len(d.sockets) |-> d.sockets[i].id]

\* what poll reports for a socket: the events asked for that have happened,
\* and POLLHUP when the peer has closed the connection.  A stream socket
\* whose peer has gone is reported writable.
Revents(d, s) ==
    IF s.ops = "passive"
    THEN IF d.backlog > 0 THEN {"POLLIN"} ELSE {}
    ELSE (IF "POLLOUT" \in SocketPoll(s) THEN {"POLLOUT"} ELSE {})
         \cup (IF "POLLIN" \in SocketPoll(s)
                   /\ (d.wire[s.id].data # <<>> \/ d.wire[s.id].hup)
               THEN {"POLLIN"} ELSE {})
         \cup (IF d.wire[s.id].hup THEN {"POLLHUP"} ELSE {})

\* __wormhole_connected_socket_process after __wormhole_socket_recv: the
\* application's received callback, then wormhole_drop_recvbuf if the
\* buffer holds nothing more
DropIfEmpty(d, i) ==
    IF d.sockets[i].recvbuf.alloc /\ buf_available(d.sockets[i].recvbuf) = 0
    THEN [d EXCEPT !.sockets[i].recvbuf = NoBuf]
    ELSE d

AfterRecv(d, i) ==
    DropIfEmpty(IF buf_available(d.sockets[i].recvbuf) > 0
                THEN wormhole_message_consume(d, i)
                ELSE d,
                i)

\* __wormhole_socket_recv when recvmsg returned n >= 0: no byte means the
\* end of the stream, also when the buffer had no room for one
Recv(d, i, id, n) ==
    IF n = 0
    THEN [d EXCEPT !.sockets[i].recv_closed = TRUE]
    ELSE [d EXCEPT
             !.sockets[i].recvbuf.tail = @ + n,
             !.sockets[i].recvbuf.data =
                 Move(@, d.wire[id].data, n).data,
             !.wire[id].data = Move(d.sockets[i].recvbuf.data, @, n).wire]

ProcessIn(d, i, id, io_ok) ==
    IF ~io_ok THEN wormhole_socket_free(d, id)
    ELSE AfterRecv(Recv(d, i, id,
                        Min(Bytes(d.wire[id].data),
                            buf_tailroom(d.sockets[i].recvbuf))),
                   i)

\* __wormhole_socket_send and what follows it.  Writing to a connection
\* the peer has closed fails and raises SIGPIPE, which the daemon neither
\* blocks nor handles: it ends the daemon unless the daemon was started
\* with the signal ignored.
ProcessOut(d, i, id, io_ok, sigpipe) ==
    IF ~d.sockets[i].sendbuf.alloc THEN wormhole_socket_free(d, id)
    ELSE IF d.wire[id].hup
    THEN IF sigpipe THEN [d EXCEPT !.status = "killed"]
         ELSE wormhole_socket_free(d, id)
    ELSE IF ~io_ok THEN wormhole_socket_free(d, id)
    ELSE [d EXCEPT !.sent = @ \cup {[socket |-> id,
                                     to |-> d.sockets[i].sendbuf.to,
                                     n |-> d.sockets[i].sendbuf.n,
                                     status |-> d.sockets[i].sendbuf.status,
                                     fd |-> d.sockets[i].sendbuf.fd]},
                   !.sockets[i].sendbuf = NoReply]

\* __wormhole_connected_socket_process
WithRecvbuf(d, i) ==
    IF d.sockets[i].recvbuf.alloc THEN d
    ELSE [d EXCEPT !.sockets[i].recvbuf = buf_alloc]

Hup(d, i, revents) ==
    IF "POLLHUP" \in revents
    THEN [d EXCEPT !.sockets[i].recv_closed = TRUE]
    ELSE d

connected_socket_process(d, i, id, revents, io_ok, sigpipe) ==
    IF "POLLIN" \in revents
    THEN ProcessIn(WithRecvbuf(Hup(d, i, revents), i), i, id, io_ok)
    ELSE IF "POLLOUT" \in revents
    THEN ProcessOut(Hup(d, i, revents), i, id, io_ok, sigpipe)
    ELSE Hup(d, i, revents)

\* __wormhole_passive_socket_process: a connection is accepted, its socket
\* gets the next id and is installed at the end of the list
passive_socket_process(d, revents, io_ok) ==
    IF "POLLIN" \notin revents \/ ~io_ok THEN d
    ELSE wormhole_install_socket(
             [d EXCEPT !.socket_id = @ + 1, !.backlog = @ - 1,
                       !.nconn = @ + 1],
             wormhole_socket_new("connected", d.socket_id))

SocketProcess(d, i, id, revents, err, sigpipe) ==
    IF d.sockets[i].ops = "passive"
    THEN passive_socket_process(d, revents, err # id)
    ELSE connected_socket_process(d, i, id, revents, err # id, sigpipe)

\* the second loop over the sockets in wormhole_daemon, with the events
\* poll has reported
RECURSIVE ProcessPass(_, _, _, _)
ProcessPass(d, ids, err, sigpipe) ==
    IF ids = <<>> \/ d.status # "running" THEN d
    ELSE ProcessPass(
             SocketProcess(d, wormhole_socket_find(d, Head(ids)), Head(ids),
                           Revents(d, d.sockets[
                                          wormhole_socket_find(d, Head(ids))]),
                           err, sigpipe),
             Tail(ids), err, sigpipe)

Ready(d) ==
    \E i \in 1..Len(d.sockets) : Revents(d, d.sockets[i]) # {}

Running == net.status = "running"

\* wormhole_daemon after wormhole_process_pending_requests, up to poll
AfterPending(d) ==
    IF d.status # "running" THEN d
    ELSE [PollPass(d, SocketIds(d)) EXCEPT !.phase = "poll"]

\* One turn of the loop up to poll: wormhole_process_pending_requests, then
\* every socket is asked for its events, and freed if it has none.  The
\* loop ends when no socket is left.
LoopTop ==
    /\ Running
    /\ net.phase = "top"
    /\ net' = IF net.sockets = <<>>
              THEN [net EXCEPT !.status = "exited"]
              ELSE AfterPending(wormhole_process_pending_requests_net(net))
    /\ UNCHANGED notNetVars

\* poll returns with events, and every socket that has some is processed
Poll(err, sigpipe) ==
    /\ Running
    /\ net.phase = "poll"
    /\ Ready(net)
    /\ net' = [ProcessPass(net, SocketIds(net), err, sigpipe)
                  EXCEPT !.phase = "top"]
    /\ UNCHANGED notNetVars

\* poll is interrupted by a signal (EINTR)
PollInterrupted ==
    /\ Running
    /\ net.phase = "poll"
    /\ net' = [net EXCEPT !.phase = "top"]
    /\ UNCHANGED notNetVars

\* a client connects to the daemon's socket
ClientConnect ==
    /\ net.phase = "poll"
    /\ net.backlog + net.nconn < MaxClients
    /\ net' = [net EXCEPT !.backlog = @ + 1]
    /\ UNCHANGED notNetVars

\* a client writes a message to its connection
ClientSend(id, m) ==
    /\ net.phase = "poll"
    /\ id \in Installed(net)
    /\ ~net.wire[id].hup
    /\ net.nsent < MaxMessages
    /\ net' = [net EXCEPT
                  !.wire[id].data =
                      Append(@, Run(m, hdrlen + m.payload_len, TRUE)),
                  !.nsent = @ + 1]
    /\ UNCHANGED notNetVars

\* a client closes its connection
ClientClose(id) ==
    /\ net.phase = "poll"
    /\ id \in Installed(net)
    /\ ~net.wire[id].hup
    /\ net' = [net EXCEPT !.wire[id].hup = TRUE]
    /\ UNCHANGED notNetVars

\* the setup of the environment ends: its namespace descriptor has arrived,
\* or the helper has failed
SetupDone(ok) ==
    /\ net.phase = "poll"
    /\ net.env = "pending"
    /\ net' = [net EXCEPT !.env = IF ok THEN "ready" ELSE "failed"]
    /\ UNCHANGED notNetVars

SocketInit == TreeIdle /\ EnvIdle /\ DaemonIdle /\ ConfigIdle /\ NetIdle /\ DiggerIdle
    /\ AutoprofileIdle /\ RestIdle

SocketNext ==
    \/ LoopTop
    \/ \E err \in 0..(MaxClients + 1), sigpipe \in BOOLEAN : Poll(err, sigpipe)
    \/ PollInterrupted
    \/ ClientConnect
    \/ \E id \in ClientIds, m \in ClientMessages : ClientSend(id, m)
    \/ \E id \in ClientIds : ClientClose(id)
    \/ \E ok \in BOOLEAN : SetupDone(ok)

SpecSocket == SocketInit /\ [][SocketNext]_vars

-----------------------------------------------------------------------------
(* A run of the digger *)

DiggerBegin ==
    /\ digger.phase = "start"
    /\ \E fail \in Elems(SetupCalls) \cup {NoCall} :
           digger' = IF DiggerSetup(digger, fail).ret = "false"
                     THEN Returned(DiggerSetup(digger, fail))
                     ELSE DiggerSetup(digger, fail)
    /\ UNCHANGED notDiggerVars

CommandExit ==
    /\ digger.phase = "running"
    /\ \E status \in WaitStatuses, writes \in CommandWrites(digger),
          lines \in ProvidesFiles :
           digger' = CommandExited(digger, status, writes, lines)
    /\ UNCHANGED notDiggerVars

DiggerFinish ==
    /\ digger.phase = "exited"
    /\ \E fail \in Elems(HarvestCalls) \cup {NoCall} :
           digger' = Returned(DiggerHarvest(digger, fail))
    /\ UNCHANGED notDiggerVars

DiggerInit ==
    /\ \E opts \in DiggerOptions, mounts \in Snapshots,
          cmd \in DiggerCommands :
           digger = [DiggerStart(opts, mounts) EXCEPT !.cmd = cmd]
    /\ EnvIdle /\ TreeIdle /\ DaemonIdle /\ ConfigIdle /\ NetIdle
    /\ AutoprofileIdle /\ RestIdle

DiggerNext == DiggerBegin \/ CommandExit \/ DiggerFinish

SpecDigger == DiggerInit /\ [][DiggerNext]_vars

-----------------------------------------------------------------------------
(* A run of the analyser *)

AutoProfile ==
    /\ autoprofile.phase = "start"
    /\ \E init_ok \in BOOLEAN, load_ok \in BOOLEAN, walked \in BOOLEAN,
          write_ok \in BOOLEAN :
           autoprofile' = wormhole_auto_profile(autoprofile, init_ok, load_ok,
                                                walked, write_ok)
    /\ UNCHANGED notAutoprofileVars

AutoprofileInit ==
    /\ \E disk \in DiskTrees, lines \in Profiles :
           autoprofile = AnalyserStart(disk, lines)
    /\ EnvIdle /\ TreeIdle /\ DaemonIdle /\ ConfigIdle /\ NetIdle
    /\ DiggerIdle /\ RestIdle

AutoprofileNext == AutoProfile

SpecAutoprofile == AutoprofileInit /\ [][AutoprofileNext]_vars

-----------------------------------------------------------------------------
(* Comparing capabilities and looking one up *)

Compare ==
    /\ registry.phase = "start"
    /\ registry' = [registry EXCEPT
           !.result = wormhole_capability_compare(registry.a, registry.b),
           !.phase = "done"]
    /\ UNCHANGED notRegistryVars

CapabilityInit ==
    /\ \E a \in Capabilities, b \in Capabilities :
           registry = RegistryStart(a, b, <<>>, <<>>)
    /\ EnvIdle /\ TreeIdle /\ DaemonIdle /\ ConfigIdle /\ NetIdle
    /\ DiggerIdle /\ AutoprofileIdle /\ ConfigFileIdle

SpecCapability == CapabilityInit /\ [][Compare]_vars

BestMatch ==
    /\ registry.phase = "start"
    /\ registry' = [registry EXCEPT
           !.best = wormhole_capability_get_best_match(registry.entries,
                                                       registry.id),
           !.phase = "done"]
    /\ UNCHANGED notRegistryVars

RegistryInit ==
    /\ \E id \in RequiredIds, entries \in Directories :
           registry = RegistryStart(Capability(<<>>, <<>>),
                                    Capability(<<>>, <<>>), id, entries)
    /\ EnvIdle /\ TreeIdle /\ DaemonIdle /\ ConfigIdle /\ NetIdle
    /\ DiggerIdle /\ AutoprofileIdle /\ ConfigFileIdle

SpecRegistry == RegistryInit /\ [][BestMatch]_vars

-----------------------------------------------------------------------------
(* Writing a configuration and loading the file that was written *)

\* wormhole_config_write
ConfigWrite ==
    /\ cfgfile.phase = "start"
    /\ cfgfile' = [cfgfile EXCEPT
           !.phase = "written",
           !.written = wormhole_config_write(cfgfile.cfg).ok,
           !.text = wormhole_config_write(cfgfile.cfg).out]
    /\ UNCHANGED notCfgfileVars

\* wormhole_config_load of the file that was written
ConfigLoad ==
    /\ cfgfile.phase = "written"
    /\ cfgfile' = [cfgfile EXCEPT
           !.phase = "loaded",
           !.loaded_ok = config_process_file(NoConfig, cfgfile.text).ok,
           !.loaded = config_process_file(NoConfig, cfgfile.text).obj]
    /\ UNCHANGED notCfgfileVars

ConfigFileInit ==
    /\ cfgfile \in {ConfigFileStart(c, "start") : c \in FileConfigs}
    /\ RegistryIdle /\ AutoprofileIdle /\ DiggerIdle
    /\ TreeIdle /\ EnvIdle /\ DaemonIdle /\ ConfigIdle /\ NetIdle

ConfigFileNext == ConfigWrite \/ ConfigLoad

SpecConfigFile == ConfigFileInit /\ [][ConfigFileNext]_vars

-----------------------------------------------------------------------------
(* Properties of the path-state tree and its walker *)

HasUnchangedAncestor(nodes, n) ==
    \E anc \in 1..Len(nodes) :
        /\ IsDescendant(nodes, n, anc)
        /\ nodes[anc].state = WORMHOLE_PATH_STATE_UNCHANGED

WalkComplete == walker.active /\ walker.pos = NULL /\ ret.op = "walk_next"

\* C1: every (path, state) pair that walk_next returns has a disposition other
\* than Unchanged, and a walk that ran to its end without skip_children has
\* returned every changed node that lies below an Unchanged ancestor.
C1_WalkYieldsChangedOnly ==
    /\ \A i \in 1..Len(yielded) :
          yielded[i].state # WORMHOLE_PATH_STATE_UNCHANGED
    /\ (WalkComplete /\ ~skipUsed) =>
          \A n \in 1..Len(tree) :
              (/\ tree[n].state # WORMHOLE_PATH_STATE_UNCHANGED
               /\ HasUnchangedAncestor(tree, n)) => n \in YieldedNodes

\* a finished walk returned a changed node whose parent, not the root, is Unchanged
C1_Witness ==
    /\ WalkComplete /\ ~skipUsed
    /\ \E n \in YieldedNodes :
          /\ tree[n].parent # ROOT
          /\ tree[tree[n].parent].state = WORMHOLE_PATH_STATE_UNCHANGED

\* C7 as stated: a create=false lookup of P returns a node exactly if an
\* earlier create=true lookup created a node at P, and it creates nothing.
C7_LookupFindsExactlyCreated ==
    \A P \in AbsPaths :
        LET r == wormhole_path_state_node_lookup(tree, P, FALSE)
        IN  /\ (r.node # NULL) <=> (CanonicalForm(P) \in created)
            /\ r.nodes = tree

\* C7 amended: the same for every P other than the root path; the root node
\* exists from wormhole_tree_state_new on and is always returned.
C7_LookupFindsCreatedOrRoot ==
    \A P \in AbsPaths :
        LET r == wormhole_path_state_node_lookup(tree, P, FALSE)
        IN  /\ (r.node # NULL) <=>
                  (CanonicalForm(P) = <<"/">> \/ CanonicalForm(P) \in created)
            /\ r.nodes = tree

\* a create=false lookup just returned a node that only exists as the prefix of
\* a longer path, and added nothing
C7_Witness ==
    /\ ret.op = "get" /\ ret.node # NULL /\ ret.node # ROOT /\ ret.grown = 0
    /\ tree[ret.node].children # NULL
    /\ wormhole_path_state_node_to_path(tree, ret.node) \in created

\* C8: a create=true lookup of an absolute path P returns a node, never NULL,
\* and the path rebuilt from the node through its parents is the canonical
\* form of P.
C8_LookupCreateIsCanonical ==
    \A P \in AbsPaths :
        LET r == wormhole_path_state_node_lookup(tree, P, TRUE)
        IN  /\ r.node # NULL
            /\ wormhole_path_state_node_to_path(r.nodes, r.node) = CanonicalForm(P)

\* a create=true lookup of a path not spelled canonically has just created
\* a node, and the path rebuilt from it is a canonical path
C8_Witness ==
    /\ ret.op = "lookup" /\ ~ret.canonical_spelling /\ ret.grown > 0
    /\ ret.node # NULL /\ ret.node # ROOT
    /\ wormhole_path_state_node_to_path(tree, ret.node) \in created

\* C9: skip_children affects the next step only: that step returns the first
\* changed node after the current node's subtree, every other step the first
\* changed node after the current node, and a step that returns a node
\* leaves skip_children cleared.
C9_SkipChildrenOneStep ==
    (ret.op = "walk_next" /\ ret.from # NULL) =>
        /\ ret.node = ExpectedNext(tree, ret.from, ret.skip)
        /\ ret.node # NULL => ~walker.skip_children
        /\ (ret.skip /\ ret.node # NULL) => ~IsDescendant(tree, ret.node, ret.from)

\* a step after skip_children passed over a changed child of the current node
\* and went on to a node outside its subtree
C9_Witness ==
    /\ ret.op = "walk_next" /\ ret.skip /\ ret.from # NULL /\ ret.node # NULL
    /\ \E n \in 1..Len(tree) :
          /\ tree[n].parent = ret.from
          /\ tree[n].state # WORMHOLE_PATH_STATE_UNCHANGED

-----------------------------------------------------------------------------
(* Properties of the environment assembler *)

\* the mount calls a directive of the given type makes
DirectiveOps(type) ==
    CASE type = WORMHOLE_PATH_TYPE_BIND -> {"bind"}
      [] type = WORMHOLE_PATH_TYPE_WORMHOLE -> {"bind"}
      [] type = WORMHOLE_PATH_TYPE_BIND_CHILDREN -> {"overlay", "bind"}
      [] type = WORMHOLE_PATH_TYPE_OVERLAY -> {"overlay"}
      [] type = WORMHOLE_PATH_TYPE_MOUNT -> {"mount"}
      [] OTHER -> {}

\* a mount call that belongs to a declared directive, not to the container
\* mount or the ldconfig step of its layer
OfDirective(x) == x.directive \in 1..Len(env.layer[x.layer].path)

\* x is not later than y in the order of layers and, within a layer, of the
\* declaration of the directives
InDeclarationOrder(x, y) ==
    \/ x.layer < y.layer
    \/ x.layer = y.layer /\ x.directive <= y.directive

\* C2: the mount calls of an assembly are made layer by layer from index 0
\* up and, within a layer, directive by directive in declaration order, each
\* call being one its directive asks for; an assembly that succeeded has
\* applied every directive; so of two mounts on the same path made for
\* different layers the one of the higher layer is made later.
C2_AssemblyOrder ==
    /\ \A i, j \in 1..Len(setup.log) :
          i < j => InDeclarationOrder(setup.log[i], setup.log[j])
    /\ \A i \in 1..Len(setup.log) :
          /\ setup.log[i].layer \in 1..Len(env.layer)
          /\ OfDirective(setup.log[i]) =>
                setup.log[i].op \in DirectiveOps(
                    env.layer[setup.log[i].layer].path[setup.log[i].directive].type)
    /\ setup.ret = "true" =>
          \A l \in 1..Len(env.layer) : \A d \in 1..Len(env.layer[l].path) :
              \E i \in 1..Len(setup.log) :
                  setup.log[i].layer = l /\ setup.log[i].directive = d
    /\ \A i, j \in 1..Len(setup.log) :
          (/\ setup.log[i].target = setup.log[j].target
           /\ setup.log[i].layer < setup.log[j].layer) => i < j

\* an assembly of two layers succeeded, both layers mounted on the same path,
\* and the last mount there is the one of the upper layer
C2_Witness ==
    /\ setup.ret = "true" /\ Len(env.layer) = 2
    /\ \E i, j \in 1..Len(setup.log) :
          /\ setup.log[i].layer = 1 /\ setup.log[j].layer = 2
          /\ OfDirective(setup.log[i]) /\ OfDirective(setup.log[j])
          /\ setup.log[i].target = setup.log[j].target
          /\ \A k \in 1..Len(setup.log) :
                setup.log[k].target = setup.log[j].target => k <= j
    /\ \E i, j \in 1..Len(setup.log) :
          /\ setup.log[i].layer = setup.log[j].layer
          /\ setup.log[i].directive < setup.log[j].directive

\* the calls of mount(2) among the mount calls
MountOps == {"bind", "overlay", "mount"}

\* C3 as stated: when a mount operation of an assembly has failed, no mount
\* call follows it and, once wormhole_environment_setup has returned, the
\* failed flag of the environment is set.
C3_MountFailureMarksFailed ==
    \A i \in 1..Len(setup.log) :
        (setup.log[i].op \in MountOps /\ ~setup.log[i].ok) =>
            /\ i = Len(setup.log)
            /\ setup.ret \in {"true", "false"} => env.failed

\* the layers of type image above the bottom of the environment
MisplacedImages ==
    {i \in 2..Len(env.layer) : env.layer[i].type = WORMHOLE_LAYER_TYPE_IMAGE}

\* C10: an assembly of an environment with an image layer at an index other
\* than 0 does not succeed, an error is logged when it returns, and no mount
\* call is made for such a layer; when the layers below it were set up, the
\* error is the one about the image not being the bottom most layer.
C10_ImageOnlyAtBottom ==
    (setup.ret # "none" /\ MisplacedImages # {}) =>
        /\ setup.ret # "true"
        /\ \A k \in 1..Len(setup.log) : setup.log[k].layer \notin MisplacedImages
        /\ setup.ret = "false" => (setup.error # NoError \/ env.failed)
        /\ (/\ setup.ret = "false"
            /\ \A k \in 1..Len(setup.log) : setup.log[k].ok
            /\ setup.error \notin {"hide", "unsupported", "root_directory_set", "glob"})
           => setup.error = "image_not_bottom"

\* the layer below was set up with its mounts, the image layer above it has
\* directives, and the assembly returned false with the error
C10_Witness ==
    /\ setup.ret = "false" /\ setup.error = "image_not_bottom"
    /\ Len(env.layer) = 2
    /\ env.layer[1].type = WORMHOLE_LAYER_TYPE_LAYER
    /\ env.layer[2].path # <<>>
    /\ setup.log # <<>>
    /\ \A k \in 1..Len(setup.log) : setup.log[k].layer = 1 /\ setup.log[k].ok

-----------------------------------------------------------------------------
(* Properties of the daemon's asynchronous setup *)

\* the helpers forked for environment e
HelpersOf(d, e) ==
    {pid \in DOMAIN d.procs :
        d.procs[pid].kind = "helper" /\ d.procs[pid].env = e}

\* a helper the daemon has not fully collected: its exit status is not
\* reaped, or it exited with status 0 and its descriptor is not read
NotCollected(p) ==
    p.kind = "helper" /\ (p.state # "reaped" \/ (p.status_ok /\ ~p.fd_read))

\* a helper that sent its descriptor and exited with status 0, when the
\* daemon has read the descriptor and reaped the exit status
Collected(p) ==
    p.kind = "helper" /\ p.state = "reaped" /\ p.status_ok /\ p.fd_read

\* C4: once the failed flag of an environment is set, no step of the daemon
\* or of a child (a namespace request, the exit of a child, a descriptor
\* received) clears it or forks another setup helper for the environment,
\* and wormhole_environment_setup on the object returns false and leaves
\* the object as it is.
C4_FailedIsTerminal ==
    /\ [](\A e \in Envs : daemon.envs[e].failed =>
            \A failAt \in 0..MountCalls([daemon.envs[e] EXCEPT !.failed = FALSE],
                                        <<>>) :
                /\ wormhole_environment_setup(daemon.envs[e], failAt,
                                              <<>>).ret = "false"
                /\ wormhole_environment_setup(daemon.envs[e], failAt,
                                              <<>>).env = daemon.envs[e])
    /\ [][\A e \in Envs : daemon.envs[e].failed =>
            /\ daemon'.envs[e].failed
            /\ HelpersOf(daemon', e) = HelpersOf(daemon, e)]_vars

\* a failed environment whose helper exited with an error, after a request
\* for it has been answered with an error
C4_Witness ==
    \E e \in Envs :
        /\ daemon.envs[e].failed
        /\ \E pid \in HelpersOf(daemon, e) :
               /\ daemon.procs[pid].state = "reaped"
               /\ ~daemon.procs[pid].status_ok
        /\ \E i \in DOMAIN daemon.replies :
               /\ daemon.replies[i].env = e
               /\ daemon.replies[i].status = WORMHOLE_STATUS_ERROR

\* C5: at any time an environment has at most one setup helper that is not
\* fully collected, and while it has one, wormhole_environment_async_setup
\* for the environment forks nothing.
C5_OneHelperPerEnvironment ==
    \A e \in Envs :
        LET pending == {pid \in HelpersOf(daemon, e) :
                            NotCollected(daemon.procs[pid])}
        IN  /\ Cardinality(pending) <= 1
            /\ pending # {} =>
                   wormhole_environment_async_setup(daemon, e, TRUE).procs
                       = daemon.procs

\* C6: when a setup helper has sent its descriptor and exited with status
\* 0, and the daemon has read the one and reaped the other, in either
\* order, the environment holds that descriptor, and every namespace request
\* for the environment answered from then on gets status OK and that
\* descriptor.
C6_DescriptorServed ==
    \A pid \in Pids :
        Collected(daemon.procs[pid]) =>
            /\ daemon.envs[daemon.procs[pid].env].nsfd = pid
            /\ \A i \in DOMAIN daemon.replies :
                   daemon.replies[i].env = daemon.procs[pid].env =>
                       /\ daemon.replies[i].status = WORMHOLE_STATUS_OK
                       /\ daemon.replies[i].fd = pid

-----------------------------------------------------------------------------
(* Properties of the flattening of environments *)

\* the environments the layers of list refer to
Refs(cfgs, list) ==
    {list[i].lower_layer_name : i \in {j \in DOMAIN list :
        list[j].type = WORMHOLE_LAYER_TYPE_REFERENCE}}

\* the defined environments reachable from those of S by k references or
\* fewer
RECURSIVE ReachFrom(_, _, _)
ReachFrom(cfgs, S, k) ==
    IF k = 0 THEN S
    ELSE ReachFrom(cfgs,
                   S \cup UNION {Refs(cfgs, cfgs[x]) \cap DOMAIN cfgs : x \in S},
                   k - 1)

\* the reference graph reachable from environment name contains a cycle
HasCycle(cfgs, name) ==
    \E x \in ReachFrom(cfgs, {name}, Cardinality(DOMAIN cfgs)) :
        x \in ReachFrom(cfgs, Refs(cfgs, cfgs[x]) \cap DOMAIN cfgs,
                        Cardinality(DOMAIN cfgs))

\* an environment reachable from name refers to one that is not defined
HasMissing(cfgs, name) ==
    \E x \in ReachFrom(cfgs, {name}, Cardinality(DOMAIN cfgs)) :
        Refs(cfgs, cfgs[x]) \ DOMAIN cfgs # {}

\* list with each reference replaced by the spliced list of the
\* environment referred to, for a reference graph without cycles
RECURSIVE Spliced(_, _)
Spliced(cfgs, list) ==
    IF list = <<>> THEN <<>>
    ELSE IF Head(list).type = WORMHOLE_LAYER_TYPE_REFERENCE
    THEN Spliced(cfgs, cfgs[Head(list).lower_layer_name])
             \o Spliced(cfgs, Tail(list))
    ELSE <<Head(list)>> \o Spliced(cfgs, Tail(list))

\* the indexes above 0 at which a flat list has an image layer
ImagesAbove(list) ==
    {i \in DOMAIN list : i > 1 /\ list[i].type = WORMHOLE_LAYER_TYPE_IMAGE}

\* what flattening the environment name of the configuration returns
Flattened(cfgs, name) ==
    wormhole_environment_chase_layers(cfgs, wormhole_environment_new, name)

C12_FailsIffCycle ==
    config.ret # "none" =>
        \A n \in EnvNames :
            Flattened(config.cfgs, n).ret = "false" <=> HasCycle(config.cfgs, n)

\* C13: when the configuration succeeds, the flat list of each environment
\* is its declared list with each reference replaced, at its position, by
\* the flat list of the environment referred to, all other layers in the
\* order declared; child = [use-environment parent, /c] with parent = [/p]
\* flattens to [/p, /c].
C13_ReferencesSplicedInPlace ==
    /\ config.ret = "true" =>
           \A n \in EnvNames :
               config.environments[n].layer = Spliced(config.cfgs, config.cfgs[n])
    /\ (/\ config.ret # "none"
        /\ config.cfgs["a"] = <<Reference("b"), LayerC>>
        /\ config.cfgs["b"] = <<LayerP>>) =>
           /\ config.ret = "true"
           /\ config.environments["a"].layer = <<LayerP, LayerC>>

\* child and parent of the example are configured, and another environment
\* has a reference between two layers of its own
C13_Witness ==
    /\ config.ret = "true"
    /\ \/ /\ config.cfgs["a"] = <<Reference("b"), LayerC>>
          /\ config.cfgs["b"] = <<LayerP>>
          /\ config.environments["a"].layer = <<LayerP, LayerC>>
       \/ /\ config.cfgs["a"] = <<LayerC, Reference("b"), LayerI>>
          /\ config.cfgs["b"] = <<LayerP, LayerP>>
          /\ Len(config.environments["a"].layer) = 4

\* C14: flattening an environment that is flattened changes nothing: a
\* configuration pass after a successful one leaves every flat list as it
\* is, and so does flattening an environment whose declared list is its
\* flat list.
C14_FlatteningIdempotent ==
    /\ [](config.ret = "true" =>
            \A n \in EnvNames :
                /\ Flattened([config.cfgs EXCEPT
                                 ![n] = config.environments[n].layer], n).ret
                       = "true"
                /\ Flattened([config.cfgs EXCEPT
                                 ![n] = config.environments[n].layer], n).env
                       = config.environments[n])
    /\ [][config.ret = "true" =>
            /\ config'.ret = "true"
            /\ config'.environments = config.environments]_vars

\* a second pass over a configuration whose environment a has the layers
\* of b spliced in
C14_Witness ==
    /\ config.ret = "true"
    /\ config.passes = 2
    /\ Refs(config.cfgs, config.cfgs["a"]) = {"b"}
    /\ Len(config.environments["a"].layer) > Len(config.cfgs["a"])

-----------------------------------------------------------------------------
(* What the assembler records in the path-state tree *)

\* the state the tree holds for path: Unchanged when it has no node there
StateAt(nodes, path) ==
    IF wormhole_path_state_node_lookup(nodes, path, FALSE).node = NULL
    THEN WORMHOLE_PATH_STATE_UNCHANGED
    ELSE nodes[wormhole_path_state_node_lookup(nodes, path, FALSE).node].state

\* the type of the directive the mount call x was made for
DirectiveType(x) == env.layer[x.layer].path[x.directive].type

\* the i'th mount call succeeded, was made for a directive of the given
\* type, and no later mount call succeeded on its target
LastMountOf(i, type) ==
    /\ setup.log[i].ok
    /\ OfDirective(setup.log[i])
    /\ DirectiveType(setup.log[i]) = type
    /\ \A j \in (i + 1)..Len(setup.log) :
           setup.log[j].ok => setup.log[j].target # setup.log[i].target

\* C16: after an assembly, the tree holds BindMounted at the mount point of
\* every bind directive that was applied, and OverlayMounted at the mount
\* point of every overlay directive that was applied (unless a later mount
\* was made on the same mount point).
C16_RecordedAtDestination ==
    setup.ret \in {"true", "false"} =>
        \A i \in 1..Len(setup.log) :
            /\ LastMountOf(i, WORMHOLE_PATH_TYPE_BIND) =>
                   StateAt(env.tree_state, setup.log[i].target)
                       = WORMHOLE_PATH_STATE_BIND_MOUNTED
            /\ LastMountOf(i, WORMHOLE_PATH_TYPE_OVERLAY) =>
                   StateAt(env.tree_state, setup.log[i].target)
                       = WORMHOLE_PATH_STATE_OVERLAY_MOUNTED

-----------------------------------------------------------------------------
(* Messages the daemon does not accept *)

\* the socket at place i has read the header of a message whose payload is
\* too big, and its buffer is full
TooBigAt(d, i) ==
    /\ d.sockets[i].ops = "connected"
    /\ d.sockets[i].recvbuf.data # <<>>
    /\ Head(d.sockets[i].recvbuf.data).hdr
    /\ Head(d.sockets[i].recvbuf.data).m.payload_len > BUF_SZ
    /\ buf_tailroom(d.sockets[i].recvbuf) = 0

\* what __wormhole_connected_socket_process leaves of d when it reads from
\* the socket at place i without an error
AfterInput(d, i) ==
    connected_socket_process(d, i, d.sockets[i].id, Revents(d, d.sockets[i]),
                             TRUE, FALSE)

\* the socket at place i reads a message now and rejects it
Rejecting(d, i) ==
    /\ d.sockets[i].ops = "connected"
    /\ "POLLIN" \in Revents(d, d.sockets[i])
    /\ d.sockets[i].id \in AfterInput(d, i).failed \ d.failed

\* the daemon runs on with the same requests and the same other sockets, and
\* the socket at place i is closed for receiving and asks for no event
OnlyThisSocket(d, i, after) ==
    /\ after.status = "running"
    /\ after.requests = d.requests
    /\ Len(after.sockets) = Len(d.sockets)
    /\ \A j \in 1..Len(d.sockets) : j # i => after.sockets[j] = d.sockets[j]
    /\ after.sockets[i].recv_closed
    /\ SocketPoll(after.sockets[i]) = {}

\* C17: A message with an incompatible protocol version, an unknown opcode
\* or a payload that is too big never ends the daemon's loop: the loop is
\* never left by log_fatal or for want of sockets, and the listening socket
\* stays installed.  Rejecting a message changes nothing but the socket it
\* came on, which is closed for receiving and asks for no more input; a
\* socket whose buffer cannot hold the announced payload is reported
\* readable and closed for receiving in the same way.  The loop's poll pass
\* then frees every socket that is closed for receiving and has no reply
\* left to send, so none is installed when poll is called.
C17_BadMessageClosesOnlyItsSocket ==
    /\ net.status \notin {"fatal", "exited"}
    /\ Running => 1 \in Installed(net)
    /\ Running /\ net.phase = "poll" =>
           \A i \in 1..Len(net.sockets) :
               /\ Rejecting(net, i) =>
                      OnlyThisSocket(net, i, AfterInput(net, i))
               /\ TooBigAt(net, i) /\ SocketPoll(net.sockets[i]) = {"POLLIN"} =>
                      /\ "POLLIN" \in Revents(net, net.sockets[i])
                      /\ OnlyThisSocket(net, i, AfterInput(net, i))
               /\ net.sockets[i].recv_closed => net.sockets[i].sendbuf.alloc

\* a socket that had a message rejected has been freed; the daemon runs,
\* and a request that came on another socket, which is still installed, has
\* been answered with a namespace descriptor
C17_Witness ==
    /\ Running
    /\ \E id \in net.failed \cap net.freed :
           \E r \in net.sent :
               r.socket # id /\ r.fd /\ r.socket \in Installed(net)

-----------------------------------------------------------------------------
(* What a run of the digger leaves behind *)

\* the command of this run has ended
CommandEnded == digger.status.kind # "none"

\* C18: when the command that the digger wraps exits with a status other
\* than zero, or a signal ends it, wormhole_digger returns false, and it has
\* neither detached the tree, renamed an upper directory into tree, cleaned
\* up, read the provides file nor written .digger.conf: the overlay root is
\* as the command left it.
C18_FailedCommandFailsSession ==
    digger.phase = "done" /\ CommandEnded
        /\ ~procutil_child_status_okay(digger.status) =>
            /\ digger.ret = "false"
            /\ digger.done = {}
            /\ digger.fs = digger.exit_fs
            /\ <<".digger.conf">> \notin digger.fs

\* a command that wrote into an upper directory and then failed, in a run
\* that has returned
C18_Witness ==
    /\ digger.phase = "done"
    /\ digger.status \in {[kind |-> "exited", code |-> 1],
                          [kind |-> "signaled", code |-> 9]}
    /\ <<"subtree.0", "tree", "f">> \in digger.fs
    /\ digger.ret = "false"

\* the working directories of a run, which the cleanup is to remove
WorkingPaths ==
    {<<"work">>, <<"lower">>, <<"root">>, <<"tree", "build">>,
     <<"tree", "build.sh">>, <<"tree", "provides">>}

\* C19: after a run of the digger that returned true, none of work, lower,
\* root, tree/build, tree/build.sh and tree/provides exists below the
\* overlay root.
C19_WorkingDirectoriesRemoved ==
    digger.phase = "done" /\ digger.ret = "true" =>
        WorkingPaths \cap digger.fs = {}

-----------------------------------------------------------------------------
(* When the analyser writes its configuration *)

\* the profile of this run was loaded and does not say 'ignore strays'
StraysMatter ==
    /\ autoprofile.phase = "done"
    /\ autoprofile.config = load_autoprofile_config(autoprofile.lines)
    /\ ~autoprofile.config.ignore_stray_files

\* C20: unless the profile says 'ignore strays', a run of the analyser
\* writes its configuration only if the pass over the tree was made and
\* ended with a stray count of zero; with a count that is not zero the run
\* ends with an exit code that is not zero and writes no configuration.
C20_StraysWithholdConfig ==
    /\ autoprofile.phase = "done" /\ autoprofile.written =>
           \/ autoprofile.config.ignore_stray_files
           \/ autoprofile.checked /\ autoprofile.stray_count = 0
    /\ StraysMatter /\ autoprofile.checked /\ autoprofile.stray_count # 0 =>
           autoprofile.exit # 0 /\ ~autoprofile.written
    /\ autoprofile.phase = "done" /\ autoprofile.exit = 0 =>
           autoprofile.written

\* tree/etc/magic and a profile with only 'optional-directory /etc': one
\* stray below /etc, counted, and the run has failed
C20_Witness ==
    /\ StraysMatter
    /\ autoprofile.disk = {<<"etc">>, <<"etc", "magic">>}
    /\ autoprofile.lines = <<Line("optional-directory", <<"etc">>)>>
    /\ autoprofile.checked
    /\ autoprofile.stray_count > 0
    /\ autoprofile.exit = 1
    /\ ~autoprofile.written

-----------------------------------------------------------------------------
(* The order of capabilities *)

\* the first atom at which two versions differ, 0 if one is a prefix of the
\* other
FirstDifference(v, w) ==
    IF \E i \in 1..Min(Len(v), Len(w)) : v[i] # w[i]
    THEN CHOOSE i \in 1..Min(Len(v), Len(w)) :
             v[i] # w[i] /\ \A j \in 1..(i - 1) : v[j] = w[j]
    ELSE 0

\* the order of two atoms that differ: by number, then an atom without
\* suffix above one with a suffix, then the suffixes as strings
AtomBelow(x, y) ==
    \/ x.numeric < y.numeric
    \/ x.numeric = y.numeric /\ x.has_string /\ ~y.has_string
    \/ x.numeric = y.numeric /\ x.has_string /\ y.has_string
       /\ strcmp(x.string, y.string) < 0

\* the order the comparison is to agree with
Below(v, w) ==
    IF FirstDifference(v, w) = 0 THEN Len(v) < Len(w)
    ELSE AtomBelow(v[FirstDifference(v, w)], w[FirstDifference(v, w)])

AtMost(c) == c \in {WORMHOLE_VERSION_LESS_THAN, WORMHOLE_VERSION_EQUAL}

\* C21: for two capabilities of the same name the comparison says exactly
\* one of less, equal and greater; it says less one way round iff it says
\* greater the other way round, and equal only for the same version; it is
\* transitive; and it is the order that compares the atoms from the left by
\* number, puts an atom without suffix above the same number with a suffix,
\* and orders suffixes as strings.
C21_CompareIsTotalOrder ==
    registry.phase = "done" /\ registry.a.name = registry.b.name
        /\ registry.a.name # <<>> =>
        /\ registry.result \in {WORMHOLE_VERSION_LESS_THAN,
                                WORMHOLE_VERSION_EQUAL,
                                WORMHOLE_VERSION_GREATER_THAN}
        /\ registry.result = WORMHOLE_VERSION_LESS_THAN <=>
               wormhole_capability_compare(registry.b, registry.a)
                   = WORMHOLE_VERSION_GREATER_THAN
        /\ registry.result = WORMHOLE_VERSION_EQUAL <=>
               registry.a = registry.b
        /\ \A c \in Capabilities :
               /\ c.name = registry.a.name
               /\ AtMost(registry.result)
               /\ AtMost(wormhole_capability_compare(registry.b, c))
               => /\ AtMost(wormhole_capability_compare(registry.a, c))
                  /\ wormhole_capability_compare(registry.a, c)
                         = WORMHOLE_VERSION_EQUAL
                     => registry.result = WORMHOLE_VERSION_EQUAL
        /\ registry.result = WORMHOLE_VERSION_LESS_THAN <=>
               Below(registry.a.version, registry.b.version)

\* 1 compared with 1rc, after another atom that is equal: greater
C21_Witness ==
    /\ registry.phase = "done"
    /\ registry.a = Capability(<<"p">>, <<Atom(2, FALSE, <<>>),
                                          Atom(1, FALSE, <<>>)>>)
    /\ registry.b = Capability(<<"p">>, <<Atom(2, FALSE, <<>>),
                                          Atom(1, TRUE, <<"r", "c">>)>>)
    /\ registry.result = WORMHOLE_VERSION_GREATER_THAN

-----------------------------------------------------------------------------
(* The lookup of the best match *)

\* C22: the lookup of a required capability returns the config of the
\* installed capability of the same name with the greatest version that is
\* not below the required one: with p3-d-3.7.9, p3-d-3.8.1 and p3-d-3.8.0rc
\* installed, p3-d-3.8 is answered with the config of p3-d-3.8.1.
C22_BestMatchIsGreatest ==
    /\ registry.phase = "done"
    /\ registry.id = Required
    /\ {registry.entries[i] : i \in 1..Len(registry.entries)}
           = {Link(n, PathOf(n)) : n \in {Link379, Link381, Link380rc}}
    => registry.best = PathOf(Link381)

-----------------------------------------------------------------------------
(* Writing a configuration and reading it back *)

\* C23: parsing the text that wormhole_config_write emits for a
\* configuration succeeds and yields a configuration equal to the one that
\* was written.
C23_ParseOfWrittenIsSame ==
    cfgfile.phase = "loaded"
        => cfgfile.loaded_ok /\ cfgfile.loaded = cfgfile.cfg


-----------------------------------------------------------------------------
(* What the pass over stray files counts *)

\* the analyser's tree when the pass over stray files starts
TreeBeforePass ==
    autoprofile_process(autoprofile.disk, autoprofile_state_init,
                        autoprofile.config.actions).tree

\* the entries on disk that are no directories, that the profile left
\* unchanged and that lie beneath unchanged directories only
StrayFiles ==
    {p \in autoprofile.disk :
        /\ d_type(p) # DT_DIR
        /\ \A q \in Prefixes(p) \ {<<>>} :
               TreeBeforePass[q].state = WORMHOLE_PATH_STATE_UNCHANGED}

\* C24: the count the pass over stray files ends with is the number of
\* entries that are no directories, are still unchanged and do not lie
\* beneath a directory that is not unchanged.
C24_StrayCountIsNumberOfStrayFiles ==
    autoprofile.checked
        => autoprofile.stray_count = Cardinality(StrayFiles)


-----------------------------------------------------------------------------
(* What the digger takes from the provides file *)

\* the lines of a file: what stands between its newlines, a carriage
\* return before a newline being part of the terminator
RECURSIVE FileLines(_)
FileLines(content) ==
    IF content = <<>> THEN <<>>
    ELSE IF strcspn(content, {"\n"}) = Len(content) THEN <<content>>
    ELSE <<SubSeq(content, 1, strcspn(content, {"\r", "\n"}))>>
         \o FileLines(SubSeq(content, strcspn(content, {"\n"}) + 2,
                             Len(content)))

NonEmptyLines(content) ==
    SelectSeq(FileLines(content), LAMBDA l : l # <<>>)

\* C25: after the harvest the provides of the new environment are the
\* non-empty lines of the provides file, in the order of the file and
\* without their terminators; an empty line adds nothing.
C25_ProvidesAreNonEmptyLines ==
    "provides" \in digger.done
        => digger.provides = NonEmptyLines(digger.provides_fd)


-----------------------------------------------------------------------------
(* An overlay root that is there when the digger starts *)

OverlayRootFound == digger.opts.overlay_root /\ digger.opts.exists

\* C26: when the overlay root exists and --clean was not given, the digger
\* fails with no namespace made and nothing mounted, and the directory is
\* as it was; with --clean what the directory held is gone and the
\* directory is there again by the time the namespace is made.
C26_ExistingOverlayRoot ==
    /\ OverlayRootFound /\ ~digger.opts.clean /\ digger.phase # "start"
           => /\ digger.phase = "done" /\ digger.ret = "false"
              /\ ~digger.namespace
              /\ digger.tree = <<>> /\ digger.mount_index = 0
              /\ digger.fs = DiggerStart(digger.opts, digger.mounts).fs
    /\ OverlayRootFound /\ digger.opts.clean /\ digger.namespace
           => /\ <<"old">> \notin digger.fs
              /\ digger.phase = "running" => <<>> \in digger.fs

\* a run that found the overlay root, had no --clean and has returned
C26_Witness ==
    /\ OverlayRootFound /\ ~digger.opts.clean
    /\ digger.phase = "done"
    /\ <<"old">> \in digger.fs


-----------------------------------------------------------------------------
(* The command of a digger run that was given none *)

\* C27: without a command (and without a build script) the digger runs
\* $SHELL if that is set, otherwise /bin/bash if that is there, otherwise
\* /bin/sh.
C27_DefaultCommand ==
    digger.argv # <<>> /\ ~digger.cmd.command /\ ~digger.opts.build_script
        => digger.argv = <<IF digger.cmd.shell # NoString
                           THEN digger.cmd.shell
                           ELSE IF digger.cmd.bash THEN "/bin/bash"
                           ELSE "/bin/sh">>


-----------------------------------------------------------------------------
(* Replies and the socket they are put on *)

\* C28: no reply is put on a socket that still has a reply to send, so the
\* assertions of wormhole_socket_enqueue hold in every state: the daemon
\* never aborts while there is room in its table of sockets, which is the
\* only other abort of the event loop.
C28_EnqueueAssertionsHold ==
    ~(net.status = "aborted" /\ Len(net.sockets) < WORMHOLE_SOCKET_MAX)


-----------------------------------------------------------------------------
(* The order in which requests are answered *)

\* the replies the daemon has made: those waiting on a socket and those
\* sent, each with the number of arrival of its request
RepliesMade ==
    {[to |-> net.sockets[i].sendbuf.to, n |-> net.sockets[i].sendbuf.n] :
         i \in {j \in 1..Len(net.sockets) : net.sockets[j].sendbuf.alloc}}
    \cup {[to |-> r.to, n |-> r.n] : r \in net.sent}

\* C30: requests are answered in the order of their arrival: no reply has
\* been made for a request that arrived after one that is still pending,
\* and a reply that waits on a socket belongs to a later request than every
\* reply already sent to that socket.
C30_AnsweredInOrderOfArrival ==
    /\ \A k \in 1..Len(net.requests) :
           \A y \in RepliesMade : y.n < net.requests[k].n
    /\ \A i \in 1..Len(net.sockets) :
           net.sockets[i].sendbuf.alloc
               => \A r \in net.sent :
                      r.to = net.sockets[i].sendbuf.to
                          => r.n < net.sockets[i].sendbuf.n


-----------------------------------------------------------------------------
(* Whether a pending request is answered in the end *)

\* C29: while the daemon lives, a request on the pending list is answered
\* or discarded and taken off the list in the end, every helper having run
\* to its exit, also when a helper has exited with status 0 and its
\* descriptor has not been received.
C29_PendingEventuallyAnswered ==
    (daemon.requests # <<>>) ~> (daemon.requests = <<>> \/ daemon.dead)

-----------------------------------------------------------------------------
(* The sub-daemon of an environment and the descriptor of its namespace *)

\* C31: the sub-daemon of an environment is started only when the
\* descriptor of the environment's namespace has been received and stored:
\* every sub-daemon was forked from a daemon whose environment had
\* nsfd >= 0, in whatever order the exit of the helper and its descriptor
\* came in.
C31_SubDaemonAfterDescriptor ==
    \A pid \in Pids :
        daemon.procs[pid].kind = "sub_daemon"
            => daemon.procs[pid].copy.nsfd >= 0

-----------------------------------------------------------------------------
(* The pending setups: the list of contexts of async-setup.c *)

\* wormhole_environment_async_check
wormhole_environment_async_check(d, e) ==
    wormhole_async_env_ctx_for_environment(d, e).ctx # NULL

\* the contexts a walk from wormhole_async_env_ctx_list comes by, from c on
RECURSIVE CtxOnList(_, _, _)
CtxOnList(ctx, c, seen) ==
    IF c = NULL \/ c \in seen THEN seen
    ELSE CtxOnList(ctx, ctx[c].next, seen \cup {c})

\* helper pid has been collected: its exit is reaped and, unless it
\* failed, its descriptor has been read
HelperCollected(pid) ==
    /\ daemon.procs[pid].state = "reaped"
    /\ daemon.procs[pid].fd_read \/ ~daemon.procs[pid].status_ok

\* an asynchronous setup of environment e is in progress
SetupInProgress(e) ==
    \E pid \in Pids :
        /\ daemon.procs[pid].kind = "helper"
        /\ daemon.procs[pid].env = e
        /\ ~HelperCollected(pid)

\* C32: the list of pending setups holds an entry for an environment
\* exactly while a helper forked for it has not been collected; it holds
\* none after a fork that failed, and a context that was released cannot
\* be reached from the list any more.
C32_EntryExactlyWhileInProgress ==
    ~daemon.dead =>
        /\ \A e \in Envs :
               wormhole_environment_async_check(daemon, e)
                   <=> SetupInProgress(e)
        /\ \A c \in CtxOnList(daemon.ctx, daemon.ctx_list, {}) :
               ~daemon.ctx[c].freed

-----------------------------------------------------------------------------
(* A complete walk of the tree *)

\* how often the walk has returned node n
TimesYielded(n) == Cardinality({i \in 1..Len(yielded) : yielded[i].node = n})

\* C33: a walk that ran to its end without skip_children has returned
\* every node whose state is not Unchanged exactly once, the root node
\* included when a state was set on it, and every node before each of its
\* descendants.
C33_CompleteWalkYieldsEveryChangedNode ==
    (WalkComplete /\ ~skipUsed) =>
        /\ \A n \in 1..Len(tree) :
               tree[n].state # WORMHOLE_PATH_STATE_UNCHANGED
                   => TimesYielded(n) = 1
        /\ \A i, j \in 1..Len(yielded) :
               IsDescendant(tree, yielded[j].node, yielded[i].node) => i < j

-----------------------------------------------------------------------------
(* Whether flattening comes to an end *)

\* C34: wormhole_profiles_configure returns, with success or with failure,
\* for every configuration, also when an environment refers to itself or
\* two environments refer to each other: no call is left in a recursion
\* that does not return.
C34_FlatteningReturns ==
    config.ret \in {"none", "true", "false"}

-----------------------------------------------------------------------------
(* The socket a reply goes to *)

\* C35: a reply, with or without a descriptor, is only enqueued on and sent
\* to the socket its request was received from: socket ids are never used
\* twice, a request names a socket that was accepted, and the reply that
\* waits on a socket or was sent through it belongs to a request of that
\* socket.  The reply to a request whose socket has been closed is
\* discarded: it waits on no socket and was sent to none.
C35_ReplyOnlyToRequestingSocket ==
    /\ \A i, j \in 1..Len(net.sockets) :
           i # j => net.sockets[i].id # net.sockets[j].id
    /\ \A i \in 1..Len(net.sockets) : net.sockets[i].id < net.socket_id
    /\ \A k \in 1..Len(net.requests) :
           net.requests[k].socket_id \in Installed(net) \cup net.freed
    /\ \A i \in 1..Len(net.sockets) :
           net.sockets[i].sendbuf.alloc
               => net.sockets[i].sendbuf.to = net.sockets[i].id
    /\ \A r \in net.sent : r.socket = r.to
    /\ \A x \in net.discarded :
           /\ x.to \in net.freed
           /\ \A y \in RepliesMade : y.n # x.n

\* the reply to a request was discarded because its socket had been closed,
\* while a socket that was accepted later is installed and has nothing to
\* send
C35_Witness ==
    /\ Running
    /\ \E x \in net.discarded :
           \E i \in 1..Len(net.sockets) :
               /\ net.sockets[i].ops = "connected"
               /\ net.sockets[i].id > x.to
               /\ ~net.sockets[i].sendbuf.alloc

-----------------------------------------------------------------------------
(* How many sockets are installed *)

\* the number of sockets that are freed in a run of SpecCapacity
MaxFreed == 1

\* a client has connected and the listening socket is readable:
\* __wormhole_passive_socket_process, where accept may fail and leave the
\* connection waiting
CapacityAccept(io_ok) ==
    /\ Running
    /\ net' = passive_socket_process([net EXCEPT !.backlog = 1],
                                     {"POLLIN"}, io_ok)
    /\ UNCHANGED notNetVars

\* wormhole_process_namespace_request starts the setup of the environment
\* and installs the socket of the helper
CapacityHelperSocket ==
    /\ Running
    /\ net.env = "unset"
    /\ net' = wormhole_install_socket(
                  [net EXCEPT !.socket_id = @ + 1, !.env = "pending"],
                  wormhole_socket_new("connected", net.socket_id))
    /\ UNCHANGED notNetVars

\* the oldest connection has ended and its socket is freed in the loop
\* of wormhole_daemon
CapacityFree ==
    /\ Running
    /\ Len(net.sockets) >= 2
    /\ Cardinality(net.freed) < MaxFreed
    /\ net' = wormhole_socket_free(net, net.sockets[2].id)
    /\ UNCHANGED notNetVars

CapacityNext ==
    \/ \E io_ok \in BOOLEAN : CapacityAccept(io_ok)
    \/ CapacityHelperSocket
    \/ CapacityFree

\* The daemon with any number of clients: only the sockets installed are
\* followed, not what is sent over them
SpecCapacity == SocketInit /\ [][CapacityNext]_vars

\* C36: the number of sockets installed never exceeds WORMHOLE_SOCKET_MAX,
\* whatever clients connect and disconnect and whatever helper sockets are
\* installed: the assertions on the capacity in wormhole_install_socket and
\* in the loop of wormhole_daemon never fail.
C36_CapacityAssertionsHold ==
    /\ Len(net.sockets) <= WORMHOLE_SOCKET_MAX
    /\ net.status # "aborted"

-----------------------------------------------------------------------------
(* The hide directive *)

\* C37: a hide directive met during the assembly is not fatal: it is
\* logged, no mount is made for it, and the assembly goes on with the
\* next directive of the layer; so no assembly fails at a hide directive.
C37_HideIsNotFatal ==
    setup.error # "hide"

-----------------------------------------------------------------------------
(* combine_tree on any assembled tree *)

UpperDirs == <<<<"subtree.0", "tree">>, <<"subtree.1", "tree">>>>

\* what is found at an upper directory when the command has ended:
\* nothing, a regular file, an empty directory, a directory with a file
UpperKinds == {"missing", "file", "empty", "filled"}

\* the directories below the overlay root, for what is found at the two
\* upper directories
UpperFs(k) ==
    UNION {CASE k[i] = "empty" -> Prefixes(UpperDirs[i])
             [] k[i] = "filled" -> Prefixes(UpperDirs[i] \o <<"f">>)
             [] k[i] = "file" -> Prefixes(pathutil_dirname(UpperDirs[i]))
             [] OTHER -> {} : i \in 1..2}
    \cup {<<>>, <<"tree">>}

UpperFiles(k) == {UpperDirs[i] : i \in {j \in 1..2 : k[j] = "file"}}

\* the assembled trees: one or two nodes, each bind mounted or overlay
\* mounted, an overlay with an upper directory of its own or with NULL
CombineTrees ==
    LET Nodes(i, mp) ==
            {TreeNode(mp, st, up) :
                 st \in {WORMHOLE_PATH_STATE_OVERLAY_MOUNTED,
                         WORMHOLE_PATH_STATE_BIND_MOUNTED},
                 up \in {UpperDirs[i], NULLSTR}}
    IN  {<<n>> : n \in Nodes(1, <<"home">>)}
        \cup {<<n, m>> : n \in Nodes(1, <<"home">>),
                         m \in Nodes(2, <<"home", "u">>) \cup Nodes(2, <<"srv">>)}

\* the digger when the command has exited with status 0, with any
\* assembled tree and anything at the upper directories
CombineInit ==
    /\ \E k \in [1..2 -> UpperKinds], nodes \in CombineTrees :
           digger = [DiggerStart([overlay_root |-> TRUE, exists |-> FALSE,
                                  clean |-> FALSE, build_directory |-> FALSE,
                                  build_script |-> FALSE], <<>>)
                        EXCEPT !.fs = UpperFs(k), !.exit_fs = UpperFs(k),
                               !.files = UpperFiles(k), !.tree = nodes,
                               !.status = [kind |-> "exited", code |-> 0],
                               !.phase = "exited"]
    /\ EnvIdle /\ TreeIdle /\ DaemonIdle /\ ConfigIdle /\ NetIdle
    /\ AutoprofileIdle /\ RestIdle

\* combine_tree, where rename may fail
CombineTree(fail) ==
    /\ digger.phase = "exited"
    /\ digger' = [combine_tree(digger, fail) EXCEPT !.phase = "combined"]
    /\ UNCHANGED notDiggerVars

CombineNext == \E fail \in {"combine", NoCall} : CombineTree(fail)

SpecCombine == CombineInit /\ [][CombineNext]_vars

\* the upper directory of node i was a directory that held something when
\* the command ended
UpperFilled(i) ==
    /\ digger.tree[i].state = WORMHOLE_PATH_STATE_OVERLAY_MOUNTED
    /\ fsutil_isdir(digger.exit_fs, digger.tree[i].upperdir)
    /\ ~fsutil_dir_is_empty(digger.exit_fs, digger.tree[i].upperdir)

\* the upper directory of node i is where it was, as it was
UpperUntouched(i) ==
    \A q \in digger.exit_fs \cup digger.fs :
        IsPrefix(digger.tree[i].upperdir, q)
            => (q \in digger.fs <=> q \in digger.exit_fs)

\* the upper directory of node i is now at tree/<mount point>
UpperMoved(i) ==
    /\ \A q \in digger.exit_fs :
           IsPrefix(digger.tree[i].upperdir, q)
               => /\ q \notin digger.fs
                  /\ <<"tree">> \o digger.tree[i].mount_point
                       \o SubSeq(q, Len(digger.tree[i].upperdir) + 1, Len(q))
                       \in digger.fs
    /\ Prefixes(<<"tree">> \o digger.tree[i].mount_point) \subseteq digger.fs

\* C38: combine_tree renames the upper directory of exactly those overlay
\* mounted nodes whose upper directory is an existing directory that is
\* not empty, to tree/<mount point> below the overlay root; a node whose
\* upper directory is NULL, missing, not a directory or empty is passed
\* over and is no error.
C38_NonEmptyUpperdirsRenamed ==
    digger.phase = "combined" =>
        /\ (\A i \in 1..Len(digger.tree) : ~UpperFilled(i))
               => digger.ret # "false" /\ digger.fs = digger.exit_fs
        /\ digger.ret # "false" =>
               \A i \in 1..Len(digger.tree) :
                   IF UpperFilled(i) THEN UpperMoved(i) ELSE UpperUntouched(i)

\* combine_tree has returned true for a tree of two overlay mounted nodes:
\* the upper directory of one held a file and is now below tree, the upper
\* directory of the other was NULL, a regular file or empty
C38_Witness ==
    /\ digger.phase = "combined" /\ digger.ret # "false"
    /\ Len(digger.tree) = 2
    /\ \A i \in 1..2 :
           digger.tree[i].state = WORMHOLE_PATH_STATE_OVERLAY_MOUNTED
    /\ \E i \in 1..2 : UpperFilled(i) /\ UpperMoved(i)
    /\ \E i \in 1..2 :
           /\ ~UpperFilled(i)
           /\ \/ digger.tree[i].upperdir = NULLSTR
              \/ digger.tree[i].upperdir \in digger.files
              \/ digger.tree[i].upperdir \in digger.fs

-----------------------------------------------------------------------------
(* remount_filesystems over a snapshot of the host's mounts: the snapshot  *)
(* is a tree of its own, made by wormhole_get_mount_state and walked with  *)
(* the walker; what is mounted is recorded in the environment's tree.      *)

\* a line of /proc/mounts, and whether access(mnt_dir, X_OK) succeeds
MountLine(dir, type, access) == [dir |-> dir, type |-> type, access |-> access]

\* the mount points of the host besides "/", in the order of /proc/mounts
MountDirs == <<<<"/", "p">>, <<"/", "p", "/", "a">>, <<"/", "h">>,
               <<"/", "s">>>>

\* the file system types found there: a virtual one, one that overlayfs
\* cannot use, one that --bind-mount-type may name, and any other
MountTypes == {"proc", "vfat", "xfs", "ext4"}

\* opt_overlay_root, below the mount point /h
OverlayDir == <<"/", "h", "/", "o">>

\* the lines of a snapshot: "/" and any of the other mount points; a
\* directory below a mount point that cannot be searched cannot be
\* searched either
MountTables ==
    LET Lines(i) == {<<>>} \cup {<<MountLine(MountDirs[i], t, a)>> :
                                     t \in MountTypes, a \in BOOLEAN}
        Searchable(p, pa) ==
            (p # <<>> /\ pa # <<>> /\ pa[1].access) => p[1].access
    IN  {<<MountLine(<<"/">>, "ext4", TRUE)>> \o t[1] \o t[2] \o h \o s :
             t \in {u \in Lines(1) \X Lines(2) : Searchable(u[1], u[2])},
             h \in Lines(3), s \in Lines(4)}

\* wormhole_get_mount_state: the tree of the lines read so far
RECURSIVE wormhole_get_mount_state(_, _)
wormhole_get_mount_state(nodes, mtab) ==
    IF mtab = <<>> THEN nodes
    ELSE wormhole_get_mount_state(
             wormhole_tree_state_set(nodes, Head(mtab).dir,
                                     WORMHOLE_PATH_STATE_SYSTEM_MOUNT).nodes,
             Tail(mtab))

\* the line that gave a node of the snapshot its mount info
system_mount(mtab, mount_point) ==
    CHOOSE m \in {mtab[i] : i \in 1..Len(mtab)} : m.dir = mount_point

\* fsutil_check_path_prefix
fsutil_check_path_prefix(path, potential_prefix) ==
    IF potential_prefix = NULLSTR \/ path = NULLSTR THEN FALSE
    ELSE IF ~IsPrefix(potential_prefix, path) THEN FALSE
    ELSE \/ Len(path) = Len(potential_prefix)
         \/ path[Len(potential_prefix) + 1] = "/"

\* snprintf(subtree_dir, ..., "%s/subtree.%u", overlay_dir, mount_index)
\* and the directory of that name below it that __init_working_dir makes
WorkingDir(overlay_dir, mount_index, name) ==
    overlay_dir \o <<"/", "subtree.", ToString(mount_index), "/", name>>

\* the digger when smoke_and_mirrors calls remount_filesystems
RemountStart(mtab, bind_mount_types, image) ==
    [mtab |-> mtab, opt_bind_mount_types |-> bind_mount_types,
     is_image_based |-> image, overlay_dir |-> OverlayDir,
     tree |-> <<>>, mount_index |-> 0, overlays |-> {},
     phase |-> "snapshot", ret |-> "none"]

RemountInit ==
    /\ \E mtab \in MountTables, types \in {{}, {"xfs"}}, image \in BOOLEAN :
           digger = RemountStart(mtab, types, image)
    /\ TreeIdle /\ EnvIdle /\ DaemonIdle /\ ConfigIdle /\ NetIdle
    /\ AutoprofileIdle /\ RestIdle

\* wormhole_get_mount_state and wormhole_tree_walk
RemountBegin ==
    /\ digger.phase = "snapshot"
    /\ tree' = wormhole_get_mount_state(wormhole_tree_state_new, digger.mtab)
    /\ walker' = [active |-> TRUE, pos |-> ROOT, skip_children |-> FALSE]
    /\ digger' = [digger EXCEPT !.phase = "walk"]
    /\ UNCHANGED <<ret, yielded, created, skipUsed, envVars, daemon, config,
                   net, autoprofile, registry, cfgfile>>

\* rebind_filesystem and wormhole_tree_walk_skip_children
rebind_filesystem(d, m, failed) ==
    IF ~m.access THEN d
    ELSE IF failed THEN [d EXCEPT !.ret = "false"]
    ELSE [d EXCEPT !.tree = Append(@, TreeNode(
                                          m.dir,
                                          WORMHOLE_PATH_STATE_BIND_MOUNTED,
                                          NULLSTR))]

\* the last branch of the loop: two working directories, the overlay
\* mount and its record in the assembled tree
overlay_filesystem(d, m, failed) ==
    IF d.is_image_based THEN d
    ELSE IF failed
    THEN [d EXCEPT !.mount_index = @ + 1, !.ret = "false"]
    ELSE [d EXCEPT
             !.mount_index = @ + 1,
             !.overlays = @ \cup
                 {[lower |-> m.dir,
                   upper |-> WorkingDir(d.overlay_dir, d.mount_index, "tree"),
                   work |-> WorkingDir(d.overlay_dir, d.mount_index, "work")]},
             !.tree = Append(@, TreeNode(
                                    m.dir,
                                    WORMHOLE_PATH_STATE_OVERLAY_MOUNTED,
                                    WorkingDir(d.overlay_dir, d.mount_index,
                                               "tree")))]

\* the body of the loop of remount_filesystems for one node of the
\* snapshot
remount_one(d, mount_point, failed) ==
    LET m == system_mount(d.mtab, mount_point)
    IN  IF mount_point = <<"/">> THEN d
        ELSE IF m.type \in virtual_filesystems
        THEN rebind_filesystem(d, m, failed)
        ELSE IF m.type \in d.opt_bind_mount_types
        THEN rebind_filesystem(d, m, failed)
        ELSE IF m.type \in no_overlay_filesystems THEN d
        ELSE IF fsutil_check_path_prefix(d.overlay_dir, mount_point) THEN d
        ELSE IF ~m.access THEN d
        ELSE overlay_filesystem(d, m, failed)

\* whether the body of the loop calls wormhole_tree_walk_skip_children
remount_skips(d, mount_point) ==
    /\ mount_point # <<"/">>
    /\ system_mount(d.mtab, mount_point).type
           \in virtual_filesystems \cup d.opt_bind_mount_types

\* one turn of the loop of remount_filesystems: wormhole_tree_walk_next,
\* and for the node it returns the body of the loop; the function returns
\* true when the walk is at its end and false when a mount fails
RemountWalk(failed) ==
    /\ digger.phase = "walk"
    /\ LET r == wormhole_tree_walk_next(tree, walker)
           mount_point == wormhole_path_state_node_to_path(tree, r.node)
           d == remount_one(digger, mount_point, failed)
       IN  IF r.node = NULL
           THEN /\ digger' = [digger EXCEPT !.phase = "done", !.ret = "true"]
                /\ walker' = NoWalker
           ELSE /\ digger' = IF d.ret = "false"
                             THEN [d EXCEPT !.phase = "done"]
                             ELSE d
                /\ walker' = IF d.ret # "false"
                                /\ remount_skips(digger, mount_point)
                             THEN [r.t EXCEPT !.skip_children = TRUE]
                             ELSE r.t
    /\ UNCHANGED <<tree, ret, yielded, created, skipUsed, envVars, daemon,
                   config, net, autoprofile, registry, cfgfile>>

RemountNext == RemountBegin \/ \E failed \in BOOLEAN : RemountWalk(failed)

SpecRemount == RemountInit /\ [][RemountNext]_vars

\* the lines of the snapshot
MountLines == {digger.mtab[i] : i \in 1..Len(digger.mtab)}

\* a mount point at or beneath a mount of a virtual file system, or of a
\* type the user listed, that the walk bind mounted or found inaccessible
BeneathBindMount(m) ==
    \E v \in MountLines :
        /\ v.type \in virtual_filesystems \cup digger.opt_bind_mount_types
        /\ v.dir # <<"/">>
        /\ fsutil_check_path_prefix(m.dir, v.dir)

\* a mount point that is the overlay root or one of its ancestors
AboveOverlayRoot(m) ==
    \/ m.dir = <<"/">>
    \/ /\ IsPrefix(m.dir, digger.overlay_dir)
       /\ \/ Len(m.dir) = Len(digger.overlay_dir)
          \/ digger.overlay_dir[Len(m.dir) + 1] = "/"

\* the overlays mounted on a mount point, and its overlay in the record
OverlaysOf(m) == {o \in digger.overlays : o.lower = m.dir}

OverlayRecorded(m, o) ==
    \E i \in 1..Len(digger.tree) :
        digger.tree[i] = TreeNode(m.dir, WORMHOLE_PATH_STATE_OVERLAY_MOUNTED,
                                  o.upper)

\* C39: when remount_filesystems has returned true, no overlay was made
\* for a mount point at or beneath a bind mounted virtual file system, for
\* one of type fat, vfat or nfs, or for an ancestor of the overlay root
\* (or the overlay root itself); every other accessible mount point of the
\* snapshot has one overlay, whose upper and work directories no other
\* overlay uses, and is recorded as overlay mounted with that upper
\* directory.
C39_EveryOtherMountOverlaid ==
    digger.phase = "done" /\ digger.ret = "true" =>
        \A m \in MountLines :
            IF \/ BeneathBindMount(m)
               \/ m.type \in no_overlay_filesystems
               \/ AboveOverlayRoot(m)
            THEN OverlaysOf(m) = {}
            ELSE m.access =>
                     /\ Cardinality(OverlaysOf(m)) = 1
                     /\ \A o \in OverlaysOf(m) :
                            /\ OverlayRecorded(m, o)
                            /\ \A o2 \in digger.overlays \ {o} :
                                   {o.upper, o.work} \cap {o2.upper, o2.work}
                                       = {}

-----------------------------------------------------------------------------
(* Which directories the pass over stray files ignores *)

\* the directories on disk that the pass enters: unchanged, as every
\* directory above them
DirsEntered ==
    {p \in autoprofile.disk :
        /\ d_type(p) = DT_DIR
        /\ \A q \in Prefixes(p) \ {<<>>} :
               TreeBeforePass[q].state = WORMHOLE_PATH_STATE_UNCHANGED}

\* a directory that the profile marked with ignore-if-empty or with
\* ignore-empty-subdirs
Marked(p) == TreeBeforePass[p].user_data /\ TreeBeforePass[p].disp.ignore_empty

\* a directory with a marker of its own, or below a directory marked with
\* ignore-empty-subdirs
Covered(p) ==
    \/ Marked(p)
    \/ \E q \in Prefixes(p) \ {<<>>, p} :
           /\ TreeBeforePass[q].user_data
           /\ TreeBeforePass[q].disp.ignore_empty_descendants

Beneath(p, q) == q # p /\ IsPrefix(p, q)

IgnoredByPass(p) == autoprofile.tree[p].state = WORMHOLE_PATH_STATE_IGNORED

====
